---- MODULE Spec2Model ----
(***************************************************************************)
(* Model of the abstract file system of model-fs (src/src/fs.rs), its      *)
(* paths (src/src/path.rs), inodes (src/src/inode.rs), errors              *)
(* (src/src/error.rs) and model commands (src/src/command.rs).             *)
(*                                                                         *)
(* A Rust String is a sequence of one-character strings, so that           *)
(* strip_prefix / split / join / starts_with are computed on characters    *)
(* as the code computes them.  "/a/aa" is <<"/", "a", "/", "a", "a">>.     *)
(***************************************************************************)
EXTENDS Integers, Sequences, FiniteSets, TLC

VARIABLES uid, gid, inodes, cwd, fd_table, fd_cells, tmp_inodes, tmp_idx,
          \* FsTestPort (src/src/port.rs): its fields fs and cwd are port_fs
          \* and port_cwd; pos is where the caller of the port stands:
          \* "idle" before start_state_retrieval, "retv" between two calls
          \* of retrieve_state_data, "done" once retrieve_state_data
          \* returned true, "failed" once it returned an error
          step, pos, stack, seen_inodes, port_fs, port_cwd, cmd_chan,
          \* the target kernel behind the channel
          tut,
          \* a path string, and the Result of AbsPath::normalize of it
          path_str, norm

fsvars == <<uid, gid, inodes, cwd, fd_table, fd_cells, tmp_inodes, tmp_idx>>

portvars == <<step, pos, stack, seen_inodes, port_fs, port_cwd, cmd_chan, tut>>

pathvars == <<path_str, norm>>

vars == <<fsvars, portvars, pathvars>>

----------------------------------------------------------------------------
(* Program constants *)

\* fs.rs:47  pub const FD_TABLE_SIZE: usize = 256;
FD_TABLE_SIZE == 256

\* fs.rs:50  pub const FDCWD: isize = -100;
FDCWD == -100

\* fs.rs:163  usize::MAX, the TmpId of the stdio placeholders.  The greatest
\* 32-bit integer stands for it: it is only ever compared for equality with
\* a TmpId, and tmp_idx never comes near either value.
USIZE_MAX == 2147483647

\* errno values behind linux_err!(..) in error.rs:28-43.  EMFILE is the
\* Linux errno for a saturated fd table; error.rs:38 gives NoAvailableFd
\* EBADF and uses EMFILE nowhere.
ENOENT == 2
EBADF == 9
EACCES == 13
EEXIST == 17
ENOTDIR == 20
EISDIR == 21
EINVAL == 22
EMFILE == 24
ENOTEMPTY == 39

----------------------------------------------------------------------------
(* Bounds of the model *)

\* The general specification keeps the file systems whose size is at most
\* this: the depths of the path keys, plus twice the number of allocated fd
\* slots, plus tmp_idx, plus the link counts of regular files in excess of
\* their alias counts.
MaxSize == 5

\* The specification of the paths keeps the strings of at most this length.
MaxLen == 5

----------------------------------------------------------------------------
(* std string operations on sequences of characters *)

\* str::starts_with
starts_with(s, p) ==
    /\ Len(p) <= Len(s)
    /\ SubSeq(s, 1, Len(p)) = p

\* str::strip_prefix("/").unwrap_or(path)
strip_prefix(s) ==
    IF Len(s) >= 1 /\ s[1] = "/" THEN SubSeq(s, 2, Len(s)) ELSE s

\* str::strip_suffix("/").unwrap_or(path)
strip_suffix(s) ==
    IF Len(s) >= 1 /\ s[Len(s)] = "/" THEN SubSeq(s, 1, Len(s) - 1) ELSE s

\* str::split('/'): the components between separators, empty ones kept
RECURSIVE split_from(_, _, _, _)
split_from(s, i, cur, acc) ==
    IF i > Len(s) THEN Append(acc, cur)
    ELSE IF s[i] = "/" THEN split_from(s, i + 1, <<>>, Append(acc, cur))
    ELSE split_from(s, i + 1, Append(cur, s[i]), acc)

split(s) == split_from(s, 1, <<>>, <<>>)

\* [&str]::join("/")
RECURSIVE join_slash(_)
join_slash(comps) ==
    IF Len(comps) = 0 THEN <<>>
    ELSE IF Len(comps) = 1 THEN comps[1]
    ELSE comps[1] \o <<"/">> \o join_slash(Tail(comps))

\* Vec::pop
pop(v) == IF Len(v) = 0 THEN v ELSE SubSeq(v, 1, Len(v) - 1)

----------------------------------------------------------------------------
(* src/src/path.rs *)

Ok(v) == [err |-> "Ok", val |-> v]
Err(e) == [err |-> e, val |-> <<>>]

\* AbsPath::root
root == <<>>

\* AbsPath::is_root
is_root(p) == p = <<>>

\* AbsPath::is_ancestor: other.0.starts_with(&format!("{}/", self.0))
is_ancestor(self, other) == starts_with(other, self \o <<"/">>)

\* AbsPath::parent, for a non-root path (None for root)
parent(p) == join_slash(pop(split(p)))

\* faulty variant of normalize_loop: ".." is kept where there is no
\* component to remove
RECURSIVE normalize_loop_keeps_parent(_, _, _)
normalize_loop_keeps_parent(comps, i, normalized) ==
    IF i > Len(comps) THEN
        Ok(IF Len(normalized) = 0 THEN root ELSE join_slash(normalized))
    ELSE IF comps[i] = <<>> THEN Err("InvalidPath")
    ELSE IF comps[i] = <<".">>
         THEN normalize_loop_keeps_parent(comps, i + 1, normalized)
    ELSE IF comps[i] = <<".", ".">> /\ Len(normalized) > 0
         THEN normalize_loop_keeps_parent(comps, i + 1, pop(normalized))
    ELSE normalize_loop_keeps_parent(comps, i + 1, Append(normalized, comps[i]))

\* the loop of AbsPath::normalize over the components
RECURSIVE normalize_loop(_, _, _)
normalize_loop(comps, i, normalized) ==
    IF i > Len(comps) THEN
        Ok(IF Len(normalized) = 0 THEN root ELSE join_slash(normalized))
    ELSE IF comps[i] = <<>> THEN Err("InvalidPath")
    ELSE IF comps[i] = <<".">> THEN normalize_loop(comps, i + 1, normalized)
    ELSE IF comps[i] = <<".", ".">> THEN normalize_loop(comps, i + 1, pop(normalized))
    ELSE normalize_loop(comps, i + 1, Append(normalized, comps[i]))

\* AbsPath::normalize
normalize(path) ==
    LET p == strip_suffix(strip_prefix(path))
    IN IF p = <<>> THEN Ok(root) ELSE normalize_loop(split(p), 1, <<>>)

\* km_command Path::absolute / Path::relative
absolute(path) == Len(path) >= 1 /\ path[1] = "/"
relative(path) == ~absolute(path)

\* impl TryFrom<Path> for AbsPath
abs_try_from(path) ==
    IF ~absolute(path) THEN Err("InvalidPath") ELSE normalize(path)

\* impl TryFrom<Path> for RelPath
rel_try_from(path) ==
    IF ~relative(path) THEN Err("InvalidPath") ELSE Ok(path)

\* the string AbsPath::join builds before it is normalized
joined(self, rel) == (IF self # <<>> THEN self \o <<"/">> ELSE self) \o rel

\* AbsPath::join
join(self, rel) == normalize(joined(self, rel))

\* impl ToString for AbsPath: the string inside, without a leading "/"
to_string(p) == p

\* no path was normalized
NotNormalized == [err |-> "None", val |-> <<>>]

\* no path string is being normalized
PathIs(s) == path_str = s /\ norm = NotNormalized

----------------------------------------------------------------------------
(* src/src/error.rs *)

\* impl Into<isize> for FsError
into_isize(e) ==
    CASE e = "NotFound" -> -ENOENT
      [] e = "PermissionDenied" -> -EACCES
      [] e = "AlreadyExists" -> -EEXIST
      [] e = "IsDirectory" -> -EISDIR
      [] e = "NotDirectory" -> -ENOTDIR
      [] e = "FdOutOfRange" -> -EBADF
      [] e = "NotOpened" -> -EBADF
      [] e = "NoAvailableFd" -> -EBADF
      [] e = "InvalidPath" -> -EINVAL
      [] e = "DirectoryNotEmpty" -> -ENOTEMPTY

----------------------------------------------------------------------------
(* src/src/inode.rs *)

\* Inode::new: link count 1 for a regular file, 2 for a directory
Inode_new(mode, u, g, kind) ==
    [mode |-> mode, uid |-> u, gid |-> g,
     nlink |-> IF kind = "Directory" THEN 2 ELSE 1, kind |-> kind]

\* impl PartialEq for Inode: with the feature "fat" uid, gid and kind are
\* compared, without it mode and nlink too
inode_eq(self, other, fat) ==
    IF fat
    THEN self.uid = other.uid /\ self.gid = other.gid /\ self.kind = other.kind
    ELSE /\ self.mode = other.mode
         /\ self.uid = other.uid
         /\ self.gid = other.gid
         /\ self.nlink = other.nlink
         /\ self.kind = other.kind

\* Inode::is_dir
inode_is_dir(inode) == inode.kind = "Directory"

----------------------------------------------------------------------------
(* MultiKeyMap<AbsPath, Inode>: a set of classes [keys, val]; the keys of  *)
(* one class are the aliases of one value.                                 *)

\* MultiKeyMap::new
mkm_new == {}

\* MultiKeyMap::keys
keys(m) == UNION {c.keys : c \in m}

\* MultiKeyMap::contains_key
contains_key(m, k) == k \in keys(m)

class_of(m, k) == CHOOSE c \in m : k \in c.keys

\* MultiKeyMap::get (for a key of the map)
get(m, k) == class_of(m, k).val

\* MultiKeyMap::get_mut followed by an assignment to the value
set_val(m, k, v) ==
    (m \ {class_of(m, k)}) \cup {[class_of(m, k) EXCEPT !.val = v]}

\* MultiKeyMap::insert, k fresh
insert(m, k, v) == m \cup {[keys |-> {k}, val |-> v]}

\* MultiKeyMap::insert_alias
insert_alias(m, existing, new) ==
    (m \ {class_of(m, existing)})
        \cup {[class_of(m, existing) EXCEPT !.keys = @ \cup {new}]}

\* MultiKeyMap::remove: the value and all its aliases
remove(m, k) == m \ {class_of(m, k)}

\* MultiKeyMap::remove_alias: just k; the value goes with its last key
remove_alias(m, k) ==
    LET c == class_of(m, k)
    IN IF c.keys = {k} THEN m \ {c}
       ELSE (m \ {c}) \cup {[c EXCEPT !.keys = @ \ {k}]}

\* MultiKeyMap::aliases (for a key of the map)
aliases(m, k) == class_of(m, k).keys

\* MultiKeyMap::are_aliases
are_aliases(m, a, b) == \E c \in m : a \in c.keys /\ b \in c.keys

\* MultiKeyMap == MultiKeyMap: the same keys, values equal under the
\* inodes' PartialEq, the same alias classes
mkm_eq(m1, m2, fat) ==
    /\ keys(m1) = keys(m2)
    /\ \A k \in keys(m1) :
          /\ inode_eq(get(m1, k), get(m2, k), fat)
          /\ aliases(m1, k) = aliases(m2, k)

----------------------------------------------------------------------------
(* src/src/fs.rs *)

\* FdRefType::Existing / FdRefType::Temporary
Existing(p) == [tag |-> "Existing", ref |-> p]
Temporary(i) == [tag |-> "Temporary", ref |-> i]

\* FileDescriptor::new_path, the constructor of a descriptor on a path
\* (command.rs:24 calls it by the name new_perm)
new_path(path, flags) == [fref |-> Existing(path), flags |-> flags]

\* FileDescriptor::new_tmp
new_tmp(idx, flags) == [fref |-> Temporary(idx), flags |-> flags]

\* The file system as one value.  fd_table maps the slots that are Some to
\* their cell (a slot outside its domain is None); fd_cells is the heap of
\* the Rc<RefCell<FileDescriptor>> cells the slots point to.
FS == [uid |-> uid, gid |-> gid, inodes |-> inodes, cwd |-> cwd,
       fd_table |-> fd_table, fd_cells |-> fd_cells,
       tmp_inodes |-> tmp_inodes, tmp_idx |-> tmp_idx]

\* Result<T, FsError> of a &mut self method, with the state it leaves
R(e, fs, v) == [err |-> e, fs |-> fs, val |-> v]

FdRange == 0 .. (FD_TABLE_SIZE - 1)

\* FileSystem::new_root
new_root(u, g) ==
    [uid |-> u, gid |-> g,
     inodes |-> insert(mkm_new, root, Inode_new("all", u, g, "Directory")),
     cwd |-> root,
     fd_table |-> <<>>,
     fd_cells |-> <<>>,
     tmp_inodes |-> <<>>,
     tmp_idx |-> 0]

\* FileSystem::open_stdio: three cells, each Temporary(usize::MAX)
open_stdio(fs) ==
    [fs EXCEPT !.fd_table = [i \in (DOMAIN @) \cup {0, 1, 2} |->
                               IF i < 3 THEN i ELSE @[i]],
               !.fd_cells = [h \in (DOMAIN @) \cup {0, 1, 2} |->
                               IF h \in {0, 1, 2} THEN new_tmp(USIZE_MAX, {})
                               ELSE @[h]]]

\* faulty variant of matches: cwd is not compared
matches_without_cwd(self, other, fat) ==
    /\ self.uid = other.uid
    /\ self.gid = other.gid
    /\ mkm_eq(self.inodes, other.inodes, fat)

\* impl AbstractState for FileSystem: matches, in the build with the
\* feature "fat" and in the one without
matches(self, other, fat) ==
    /\ self.cwd = other.cwd
    /\ self.uid = other.uid
    /\ self.gid = other.gid
    /\ mkm_eq(self.inodes, other.inodes, fat)

\* FileSystem::exists
exists(fs, path) == contains_key(fs.inodes, path)

\* FileSystem::is_dir
is_dir(fs, path) ==
    IF contains_key(fs.inodes, path) THEN inode_is_dir(get(fs.inodes, path))
    ELSE FALSE

\* faulty variant of is_empty_dir: every directory counts as empty
is_empty_dir_any(fs, path) == is_dir(fs, path)

\* FileSystem::is_empty_dir
is_empty_dir(fs, path) ==
    is_dir(fs, path) /\ \A k \in keys(fs.inodes) : ~is_ancestor(path, k)

\* FileSystem::lookup
lookup(fs, path) ==
    IF contains_key(fs.inodes, path) THEN Ok(get(fs.inodes, path))
    ELSE Err("NotFound")

\* FileSystem::increase_nlink
increase_nlink(fs, path) ==
    IF ~contains_key(fs.inodes, path) THEN R("NotFound", fs, 0)
    ELSE R("Ok",
           [fs EXCEPT !.inodes =
               set_val(@, path, [get(@, path) EXCEPT !.nlink = @ + 1])],
           0)

\* faulty variant of decrease_nlink: the link count is left alone
nlink_kept(fs, path) ==
    IF ~contains_key(fs.inodes, path) THEN R("NotFound", fs, 0)
    ELSE R("Ok", fs, 0)

\* FileSystem::decrease_nlink; nlink is a usize and 0 - 1 overflows, which
\* panics where overflow is checked
decrease_nlink(fs, path) ==
    IF ~contains_key(fs.inodes, path) THEN R("NotFound", fs, 0)
    ELSE IF get(fs.inodes, path).nlink = 0 THEN R("Panic", fs, 0)
    ELSE R("Ok",
           [fs EXCEPT !.inodes =
               set_val(@, path, [get(@, path) EXCEPT !.nlink = @ - 1])],
           0)

\* FileSystem::all_fds
all_fds(fs) == DOMAIN fs.fd_table

\* the fref seen through slot fd: fd_table[fd].borrow().fref
fref_of(fs, fd) == fs.fd_cells[fs.fd_table[fd]].fref

\* FileSystem::ref_same_inode
ref_same_inode(fs, a, b) ==
    IF a.tag = "Existing" /\ b.tag = "Existing"
        THEN are_aliases(fs.inodes, a.ref, b.ref)
    ELSE IF a.tag = "Temporary" /\ b.tag = "Temporary" THEN a.ref = b.ref
    ELSE FALSE

\* FileSystem::all_fds_ref_same_inode
all_fds_ref_same_inode(fs, fref) ==
    {fd \in all_fds(fs) : ref_same_inode(fs, fref_of(fs, fd), fref)}

\* FileSystem::get_fd: the cell handle of the slot
get_fd(fs, fd) ==
    IF fd < 0 \/ fd >= FD_TABLE_SIZE THEN Err("FdOutOfRange")
    ELSE IF fd \notin DOMAIN fs.fd_table THEN Err("NotOpened")
    ELSE Ok(fs.fd_table[fd])

\* Rc::new: a cell no slot points to yet
rc_new(fs) == CHOOSE h \in 0 .. Cardinality(DOMAIN fs.fd_cells) :
                  /\ h \notin DOMAIN fs.fd_cells
                  /\ \A g \in 0 .. (h - 1) : g \in DOMAIN fs.fd_cells

\* the cells still pointed to by a slot (an Rc is dropped with its last owner)
rc_live(fs) ==
    [fs EXCEPT !.fd_cells =
        [h \in {fs.fd_table[i] : i \in all_fds(fs)} |-> @[h]]]

\* faulty variant of lowest_none: the index after the highest allocated one
none_after_highest(fs) ==
    IF all_fds(fs) = {} THEN 0
    ELSE 1 + CHOOSE j \in all_fds(fs) : \A k \in all_fds(fs) : k <= j

\* the lowest index of the table that is None, FD_TABLE_SIZE when none is
lowest_none(fs) ==
    CHOOSE j \in 0 .. Cardinality(all_fds(fs)) :
        /\ j \notin all_fds(fs)
        /\ \A k \in 0 .. (j - 1) : k \in all_fds(fs)

\* FileSystem::alloc_fd: cell h, holding fd, goes to the lowest empty slot
alloc_fd(fs, h, fd) ==
    IF lowest_none(fs) >= FD_TABLE_SIZE THEN R("NoAvailableFd", fs, 0)
    ELSE LET i == lowest_none(fs)
         IN R("Ok",
              [fs EXCEPT !.fd_table = [x \in (DOMAIN @) \cup {i} |->
                                          IF x = i THEN h ELSE @[x]],
                         !.fd_cells = [x \in (DOMAIN @) \cup {h} |->
                                          IF x = h THEN fd ELSE @[x]]],
              i)

\* Map::remove on tmp_inodes
tmp_remove(t, idx) == [x \in (DOMAIN t) \ {idx} |-> t[x]]

\* Map::insert on tmp_inodes
tmp_insert(t, idx, inode) ==
    [x \in (DOMAIN t) \cup {idx} |-> IF x = idx THEN inode ELSE t[x]]

\* faulty variant of free_fd: the slot is read, not taken
free_fd_slot_kept(fs, fd) ==
    IF get_fd(fs, fd).err = "Ok" THEN R("Ok", fs, 0)
    ELSE R("NotOpened", fs, 0)

\* FileSystem::free_fd
free_fd(fs, fd) ==
    IF get_fd(fs, fd).err = "Ok" THEN
        LET fref == fref_of(fs, fd)
            taken == [fs EXCEPT !.fd_table = [x \in (DOMAIN @) \ {fd} |-> @[x]]]
            related_fds == all_fds_ref_same_inode(taken, fref)
            reaped == IF fref.tag = "Temporary" /\ Cardinality(related_fds) = 1
                      THEN [taken EXCEPT !.tmp_inodes = tmp_remove(@, fref.ref)]
                      ELSE taken
        IN R("Ok", rc_live(reaped), 0)
    ELSE R("NotOpened", fs, 0)

\* faulty variant of retarget: the fds keep their target
retarget_skipped(fs, fds, fref) == fs

\* the retargeting loops of unlink: every fd of fds gets fref
retarget(fs, fds, fref) ==
    [fs EXCEPT !.fd_cells =
        [h \in DOMAIN @ |->
            IF \E fd \in fds : fs.fd_table[fd] = h
            THEN [@[h] EXCEPT !.fref = fref] ELSE @[h]]]

\* faulty variant of create: the parent's link count is left alone
create_without_parent_link(fs, path, kind, mode) ==
    IF exists(fs, path) THEN R("AlreadyExists", fs, 0)
    ELSE IF is_root(path) THEN R("Panic", fs, 0)
    ELSE IF ~exists(fs, parent(path)) THEN R("NotFound", fs, 0)
    ELSE IF ~is_dir(fs, parent(path)) THEN R("NotDirectory", fs, 0)
    ELSE R("Ok",
           [fs EXCEPT !.inodes =
               insert(@, path, Inode_new(mode, fs.uid, fs.gid, kind))],
           0)

\* FileSystem::create; path.parent().unwrap() panics on the root
create(fs, path, kind, mode) ==
    IF exists(fs, path) THEN R("AlreadyExists", fs, 0)
    ELSE IF is_root(path) THEN R("Panic", fs, 0)
    ELSE IF ~exists(fs, parent(path)) THEN R("NotFound", fs, 0)
    ELSE IF ~is_dir(fs, parent(path)) THEN R("NotDirectory", fs, 0)
    ELSE LET made == [fs EXCEPT !.inodes =
                         insert(@, path, Inode_new(mode, fs.uid, fs.gid, kind))]
         IN IF kind = "Directory" THEN increase_nlink(made, parent(path))
            ELSE R("Ok", made, 0)

\* faulty variant of link: a directory is linked like a file
link_dirs(fs, oldpath, newpath) ==
    IF ~exists(fs, oldpath) THEN R("NotFound", fs, 0)
    ELSE IF exists(fs, newpath) THEN R("AlreadyExists", fs, 0)
    ELSE IF is_root(newpath) THEN R("Panic", fs, 0)
    ELSE IF ~exists(fs, parent(newpath)) THEN R("NotFound", fs, 0)
    ELSE IF ~is_dir(fs, parent(newpath)) THEN R("NotDirectory", fs, 0)
    ELSE increase_nlink(
            [fs EXCEPT !.inodes = insert_alias(@, oldpath, newpath)], oldpath)

\* FileSystem::link; newpath.parent().unwrap() panics on the root
link(fs, oldpath, newpath) ==
    IF ~exists(fs, oldpath) THEN R("NotFound", fs, 0)
    ELSE IF is_dir(fs, oldpath) THEN R("IsDirectory", fs, 0)
    ELSE IF exists(fs, newpath) THEN R("AlreadyExists", fs, 0)
    ELSE IF is_root(newpath) THEN R("Panic", fs, 0)
    ELSE IF ~exists(fs, parent(newpath)) THEN R("NotFound", fs, 0)
    ELSE IF ~is_dir(fs, parent(newpath)) THEN R("NotDirectory", fs, 0)
    ELSE increase_nlink(
            [fs EXCEPT !.inodes = insert_alias(@, oldpath, newpath)], oldpath)

\* FileSystem::unlink, lines 241-281: the inode's disposition once the
\* checks have passed (fs is the state after the parent's nlink update)
unlink_inode(fs, path) ==
    LET related_fds == all_fds_ref_same_inode(fs, Existing(path))
        als == aliases(fs.inodes, path)
    IN IF Cardinality(als) = 1 THEN
            LET inode == get(fs.inodes, path)
                removed == [fs EXCEPT !.inodes = remove(@, path)]
            IN IF related_fds # {} THEN
                    R("Ok",
                      [retarget(removed, related_fds, Temporary(fs.tmp_idx))
                          EXCEPT !.tmp_inodes = tmp_insert(@, fs.tmp_idx, inode),
                                 !.tmp_idx = @ + 1],
                      0)
               ELSE R("Ok", removed, 0)
       ELSE
            LET removed == [fs EXCEPT !.inodes = remove_alias(@, path)]
                dec == decrease_nlink(removed, path)
            IN IF dec.err # "Ok" THEN dec
               ELSE IF related_fds # {} THEN
                    \* find() takes the first alias still present; the order
                    \* of the Vec is the map's.  decrease_nlink(path) above
                    \* has already failed on the removed key, so no run
                    \* gets here.
                    \* find(..).unwrap() panics when none is left.
                    IF \A p \in als : ~contains_key(dec.fs.inodes, p)
                    THEN R("Panic", dec.fs, 0)
                    ELSE LET another_path ==
                             CHOOSE p \in als : contains_key(dec.fs.inodes, p)
                         IN R("Ok", retarget(dec.fs, related_fds,
                                             Existing(another_path)), 0)
               ELSE R("Ok", dec.fs, 0)

\* faulty variant of unlink: the root is not refused, and
\* path.parent().unwrap() meets it
unlink_without_root_check(fs, path, rmdir) ==
    IF ~exists(fs, path) THEN R("NotFound", fs, 0)
    ELSE IF is_dir(fs, path) THEN
        IF ~rmdir THEN R("IsDirectory", fs, 0)
        ELSE IF ~is_empty_dir(fs, path) THEN R("DirectoryNotEmpty", fs, 0)
        ELSE IF is_root(path) THEN R("Panic", fs, 0)
        ELSE LET dec == decrease_nlink(fs, parent(path))
             IN IF dec.err # "Ok" THEN dec ELSE unlink_inode(dec.fs, path)
    ELSE IF rmdir THEN R("NotDirectory", fs, 0)
    ELSE unlink_inode(fs, path)

\* faulty variant of unlink: the parent's link count is taken down before
\* the directory is found not to be empty
unlink_counts_first(fs, path, rmdir) ==
    IF is_root(path) THEN R("InvalidPath", fs, 0)
    ELSE IF ~exists(fs, path) THEN R("NotFound", fs, 0)
    ELSE IF is_dir(fs, path) THEN
        IF ~rmdir THEN R("IsDirectory", fs, 0)
        ELSE LET dec == decrease_nlink(fs, parent(path))
             IN IF dec.err # "Ok" THEN dec
                ELSE IF ~is_empty_dir(fs, path)
                     THEN R("DirectoryNotEmpty", dec.fs, 0)
                ELSE unlink_inode(dec.fs, path)
    ELSE IF rmdir THEN R("NotDirectory", fs, 0)
    ELSE unlink_inode(fs, path)

\* FileSystem::unlink
unlink(fs, path, rmdir) ==
    IF is_root(path) THEN R("InvalidPath", fs, 0)
    ELSE IF ~exists(fs, path) THEN R("NotFound", fs, 0)
    ELSE IF is_dir(fs, path) THEN
        IF ~rmdir THEN R("IsDirectory", fs, 0)
        ELSE IF ~is_empty_dir(fs, path) THEN R("DirectoryNotEmpty", fs, 0)
        ELSE LET dec == decrease_nlink(fs, parent(path))
             IN IF dec.err # "Ok" THEN dec ELSE unlink_inode(dec.fs, path)
    ELSE IF rmdir THEN R("NotDirectory", fs, 0)
    ELSE unlink_inode(fs, path)

\* FileSystem::chdir
chdir(fs, path) ==
    IF ~exists(fs, path) THEN R("NotFound", fs, 0)
    ELSE IF ~is_dir(fs, path) THEN R("NotDirectory", fs, 0)
    ELSE R("Ok", [fs EXCEPT !.cwd = path], 0)

\* faulty variant of parse_path: dirfd is looked up for an absolute path too
parse_path_fd_first(fs, dirfd, path) ==
    IF dirfd = FDCWD THEN
        IF absolute(path) THEN abs_try_from(path)
        ELSE join(fs.cwd, rel_try_from(path).val)
    ELSE IF get_fd(fs, dirfd).err # "Ok" THEN get_fd(fs, dirfd)
    ELSE LET fref == fref_of(fs, dirfd)
         IN IF fref.tag = "Existing" THEN
                IF ~exists(fs, fref.ref) THEN Err("NotFound")
                ELSE IF ~is_dir(fs, fref.ref) THEN Err("NotDirectory")
                ELSE IF absolute(path) THEN abs_try_from(path)
                ELSE join(fref.ref, rel_try_from(path).val)
            ELSE Err("NotFound")

\* FileSystem::parse_path
parse_path(fs, dirfd, path) ==
    IF absolute(path) THEN abs_try_from(path)
    ELSE IF dirfd = FDCWD THEN
        IF rel_try_from(path).err # "Ok" THEN rel_try_from(path)
        ELSE join(fs.cwd, rel_try_from(path).val)
    ELSE IF get_fd(fs, dirfd).err # "Ok" THEN get_fd(fs, dirfd)
    ELSE LET fref == fref_of(fs, dirfd)
         IN IF fref.tag = "Existing" THEN
                IF ~exists(fs, fref.ref) THEN Err("NotFound")
                ELSE IF ~is_dir(fs, fref.ref) THEN Err("NotDirectory")
                ELSE IF rel_try_from(path).err # "Ok" THEN rel_try_from(path)
                ELSE join(fref.ref, rel_try_from(path).val)
            ELSE Err("NotFound")

----------------------------------------------------------------------------
(* src/src/command.rs: what each model command returns and leaves *)

\* .map_or_else(|e| e.into(), |v| v) with the state the closure leaves;
\* panic says that the command panicked and returned nothing
done(r) == [ret |-> IF r.err = "Ok" THEN r.val
                    ELSE IF r.err = "Panic" THEN 0
                    ELSE into_isize(r.err),
            fs |-> r.fs,
            panic |-> r.err = "Panic"]

fail(e, fs) == [ret |-> into_isize(e), fs |-> fs, panic |-> FALSE]

\* model_command!(km_command::fs, Chdir, ..)
ModelChdir(fs, path) ==
    IF abs_try_from(path).err # "Ok" THEN fail(abs_try_from(path).err, fs)
    ELSE done(chdir(fs, abs_try_from(path).val))

\* faulty variant of Openat: a missing file is created without CREAT too
openat_creates(fs, dirfd, path, flags, mode) ==
    LET p == parse_path(fs, dirfd, path)
    IN IF p.err # "Ok" THEN fail(p.err, fs)
       ELSE LET cr == IF lookup(fs, p.val).err # "Ok"
                      THEN create(fs, p.val, "File", mode)
                      ELSE R("Ok", fs, 0)
            IN IF cr.err # "Ok" THEN done(cr)
               ELSE done(alloc_fd(cr.fs, rc_new(cr.fs), new_path(p.val, flags)))

\* model_command!(km_command::fs, Openat, ..)
ModelOpenat(fs, dirfd, path, flags, mode) ==
    LET p == parse_path(fs, dirfd, path)
    IN IF p.err # "Ok" THEN fail(p.err, fs)
       ELSE IF lookup(fs, p.val).err # "Ok" /\ "CREAT" \notin flags
            THEN fail(lookup(fs, p.val).err, fs)
       ELSE LET cr == IF lookup(fs, p.val).err # "Ok"
                      THEN create(fs, p.val, "File", mode)
                      ELSE R("Ok", fs, 0)
            IN IF cr.err # "Ok" THEN done(cr)
               ELSE done(alloc_fd(cr.fs, rc_new(cr.fs), new_path(p.val, flags)))

\* model_command!(km_command::fs, Close, ..)
ModelClose(fs, fd) == done(free_fd(fs, fd))

\* model_command!(km_command::fs, Mkdirat, ..)
ModelMkdirat(fs, dirfd, path, mode) ==
    LET p == parse_path(fs, dirfd, path)
    IN IF p.err # "Ok" THEN fail(p.err, fs)
       ELSE done(create(fs, p.val, "Directory", mode))

\* model_command!(km_command::fs, Linkat, ..)
ModelLinkat(fs, olddirfd, oldpath, newdirfd, newpath) ==
    LET old_path == parse_path(fs, olddirfd, oldpath)
        new_path_ == parse_path(fs, newdirfd, newpath)
    IN IF old_path.err # "Ok" THEN fail(old_path.err, fs)
       ELSE IF new_path_.err # "Ok" THEN fail(new_path_.err, fs)
       ELSE done(link(fs, old_path.val, new_path_.val))

\* model_command!(km_command::fs, Unlinkat, ..)
ModelUnlinkat(fs, dirfd, path, flags) ==
    LET p == parse_path(fs, dirfd, path)
    IN IF p.err # "Ok" THEN fail(p.err, fs)
       ELSE done(unlink(fs, p.val, "REMOVEDIR" \in flags))

\* faulty variant of Dup: the new slot gets a copy of the entry in a cell of
\* its own
dup_copies(fs, oldfd) ==
    IF get_fd(fs, oldfd).err # "Ok" THEN fail(get_fd(fs, oldfd).err, fs)
    ELSE done(alloc_fd(fs, rc_new(fs), fs.fd_cells[get_fd(fs, oldfd).val]))

\* model_command!(km_command::fs, Dup, ..)
ModelDup(fs, oldfd) ==
    IF get_fd(fs, oldfd).err # "Ok" THEN fail(get_fd(fs, oldfd).err, fs)
    ELSE done(alloc_fd(fs, get_fd(fs, oldfd).val,
                       fs.fd_cells[get_fd(fs, oldfd).val]))

----------------------------------------------------------------------------
(* The commands a run draws from *)

\* relative names of the commander's pool (commander.rs:27)
NAMES == { <<"a">>, <<"a", "a">> }

\* the paths given to commands
PathInputs == NAMES

\* the paths given to chdir: "/" + key for the keys of inodes, as the
\* commander builds them (commander.rs:72-81), and a relative one
ChdirInputs == { <<"/">> \o k : k \in keys(inodes) } \cup { <<"a">> }

\* the fds given to commands: AT_FDCWD or an allocated fd, as the
\* commander's fd_gen draws them (commander.rs:58-71), stdio included
FdInputs == {FDCWD} \cup all_fds(FS)

DirFdInputs == FdInputs

OpenFlagInputs == { {}, {"CREAT"} }

UnlinkFlagInputs == { {}, {"REMOVEDIR"} }

ModeInputs == { "m600" }

\* the states the bounds keep in the model
\* the number of components of an AbsPath
depth(p) == IF is_root(p) THEN 0 ELSE Len(split(p))

RECURSIVE sum_depth(_)
sum_depth(ks) ==
    IF ks = {} THEN 0
    ELSE LET k == CHOOSE x \in ks : TRUE
         IN depth(k) + sum_depth(ks \ {k})

RECURSIVE sum_excess(_)
sum_excess(m) ==
    IF m = {} THEN 0
    ELSE LET c == CHOOSE x \in m : TRUE
         IN (IF c.val.kind = "File" /\ c.val.nlink > Cardinality(c.keys)
             THEN c.val.nlink - Cardinality(c.keys) ELSE 0)
                + sum_excess(m \ {c})

size(fs) ==
    sum_depth(keys(fs.inodes)) + 2 * Cardinality(all_fds(fs)) + fs.tmp_idx
        + sum_excess(fs.inodes)

InBounds(fs) == size(fs) <= MaxSize

\* An Rc pointer is only ever compared for identity, so states that differ
\* in the cells' addresses alone are one state: each cell is named by the
\* lowest slot that owns it.
lowest_owner(fs, h) == CHOOSE i \in all_fds(fs) :
                          /\ fs.fd_table[i] = h
                          /\ \A j \in all_fds(fs) : fs.fd_table[j] = h => i <= j

canon_table(fs) ==
    [i \in all_fds(fs) |-> lowest_owner(fs, fs.fd_table[i])]

canon_cells(fs) ==
    [h \in {lowest_owner(fs, fs.fd_table[i]) : i \in all_fds(fs)} |->
        fs.fd_cells[fs.fd_table[h]]]

----------------------------------------------------------------------------
(* The command channel of km_checker and the target kernel behind it, as   *)
(* src/src/port.rs uses them.  The channel is a MemCommandChannel: it      *)
(* keeps the last command sent and the last reply written, and a reply,    *)
(* the return value and the extra data, can be read more than once.        *)

\* the extra data of a reply that carries none
NoData == [ino |-> 0, mode |-> "none", nlink |-> 0, uid |-> 0, gid |-> 0,
           kind |-> "none", name |-> <<>>]

\* a channel on which nothing was sent yet.  pending: the target kernel
\* has not answered cmd; unread: its reply was not received; outstanding:
\* the commands sent whose reply was not received; log: the commands sent
\* since the log was cleared, each with the return value once it is there;
\* reads: the calls of receive_retv since the log was cleared.
chan_new ==
    [cmd |-> [op |-> "none"], pending |-> FALSE,
     unread |-> FALSE, retv |-> 0, extra |-> NoData,
     outstanding |-> 0, overlap |-> FALSE, log |-> <<>>, reads |-> 0]

\* the channel with its log cleared
chan_clear_log(ch) == [ch EXCEPT !.log = <<>>, !.reads = 0]

\* MemCommandChannel::send_command; overlap records a command sent while
\* the reply to an earlier one was not received
chan_send_command(ch, c) ==
    [ch EXCEPT !.cmd = c, !.pending = TRUE,
               !.outstanding = @ + 1,
               !.overlap = @ \/ ch.outstanding > 0,
               !.log = Append(@, [cmd |-> c, answered |-> FALSE, retv |-> 0])]

\* MemCommandChannel::receive_retv returns (it blocks until then)
can_receive(ch) == ~ch.pending /\ ch.cmd.op # "none"

\* the channel after MemCommandChannel::receive_retv has returned ch.retv
chan_receive_retv(ch) ==
    [ch EXCEPT !.unread = FALSE,
               !.outstanding = IF ch.unread THEN @ - 1 ELSE @,
               !.reads = @ + 1]

\* the target kernel writes its reply
reply(ch, retv, extra) ==
    [ch EXCEPT !.pending = FALSE, !.unread = TRUE,
               !.retv = retv, !.extra = extra,
               !.log[Len(ch.log)] = [@ EXCEPT !.answered = TRUE,
                                              !.retv = retv]]

\* km_command FileStat of the target kernel
FileStat(ino, kind, nlink) ==
    [ino |-> ino, mode |-> "m600", nlink |-> nlink, uid |-> 0, gid |-> 0,
     kind |-> kind, name |-> <<>>]

\* km_command DirEntry of the target kernel
DirEntry(stat, name) == [NoData EXCEPT !.ino = stat.ino, !.kind = stat.kind,
                                       !.name = name]

\* The directory trees of the target kernel: the root alone, one file, two
\* hard links of one file, a file in a directory, and an empty directory
\* beside a file.  A tree maps each path to its FileStat.
TutTrees ==
    { (root :> FileStat(1, "Directory", 2)),
      (root :> FileStat(1, "Directory", 2))
          @@ (<<"a">> :> FileStat(2, "File", 1)),
      (root :> FileStat(1, "Directory", 2))
          @@ (<<"a">> :> FileStat(2, "File", 2))
          @@ (<<"b">> :> FileStat(2, "File", 2)),
      (root :> FileStat(1, "Directory", 3))
          @@ (<<"a">> :> FileStat(2, "Directory", 2))
          @@ (<<"a", "/", "b">> :> FileStat(3, "File", 1)),
      (root :> FileStat(1, "Directory", 3))
          @@ (<<"a">> :> FileStat(2, "Directory", 2))
          @@ (<<"b">> :> FileStat(3, "File", 1)) }

\* A target kernel with the tree files and no open fd but the stdio ones.
\* strict: openat of a relative path with a dirfd that is neither open nor
\* AT_FDCWD fails with EBADF, as POSIX has it; otherwise such a dirfd is
\* taken like AT_FDCWD.  dots: getdents lists "." and ".." too.
tut_new(files, strict, dots) ==
    [files |-> files, cwd |-> root, fds |-> <<>>,
     strict |-> strict, dots |-> dots]

\* the lowest fd of the target kernel that is not open, above stdio
tut_lowest_fd(t) ==
    CHOOSE n \in 3 .. (3 + Cardinality(DOMAIN t.fds)) :
        /\ n \notin DOMAIN t.fds
        /\ \A m \in 3 .. (n - 1) : m \in DOMAIN t.fds

\* the path an openat of the target kernel names
tut_resolve(t, dirfd, path) ==
    IF absolute(path) THEN normalize(path)
    ELSE IF dirfd \in DOMAIN t.fds THEN join(t.fds[dirfd].path, path)
    ELSE IF dirfd = FDCWD \/ ~t.strict THEN join(t.cwd, path)
    ELSE Err("FdOutOfRange")

\* the names getdents of the target kernel lists for a directory
tut_entries(t, dir) ==
    { LET c == split(q) IN c[Len(c)] :
        q \in { q \in DOMAIN t.files : q # root /\ parent(q) = dir } }
    \cup (IF t.dots THEN { <<".">>, <<".", ".">> } ELSE {})

\* one answer of the target kernel
Answer(t, retv, extra) == [tut |-> t, retv |-> retv, extra |-> extra]

\* the answers the target kernel can give to the command c
tut_answers(t, c) ==
    CASE c.op = "openat" ->
           LET p == tut_resolve(t, c.dirfd, c.path)
               fd == tut_lowest_fd(t)
           IN IF p.err # "Ok" THEN { Answer(t, into_isize(p.err), NoData) }
              ELSE IF p.val \notin DOMAIN t.files
                   THEN { Answer(t, -ENOENT, NoData) }
              ELSE { Answer([t EXCEPT !.fds = @ @@ (fd :> [path |-> p.val,
                                                           read |-> {}])],
                            fd, NoData) }
      [] c.op = "fstat" ->
           IF c.fd \notin DOMAIN t.fds THEN { Answer(t, -EBADF, NoData) }
           ELSE { Answer(t, 0, t.files[t.fds[c.fd].path]) }
      [] c.op = "getdents" ->
           IF c.fd \notin DOMAIN t.fds THEN { Answer(t, -EBADF, NoData) }
           ELSE LET dir == t.fds[c.fd].path
                    rest == tut_entries(t, dir) \ t.fds[c.fd].read
                IN IF t.files[dir].kind # "Directory"
                   THEN { Answer(t, -ENOTDIR, NoData) }
                   ELSE IF rest = {} THEN { Answer(t, 0, NoData) }
                   ELSE { Answer([t EXCEPT !.fds[c.fd].read = @ \cup {n}],
                                 c.count, DirEntry(t.files[dir], n)) :
                            n \in rest }
      [] c.op = "close" ->
           IF c.fd \notin DOMAIN t.fds THEN { Answer(t, -EBADF, NoData) }
           ELSE { Answer([t EXCEPT !.fds = [i \in DOMAIN @ \ {c.fd} |-> @[i]]],
                         0, NoData) }
      [] c.op = "getcwd" ->
           { Answer(t, 0, [NoData EXCEPT !.name = <<"/">> \o t.cwd]) }

----------------------------------------------------------------------------
(* src/src/port.rs: FsTestPort *)

\* faulty variant of send_command: the command goes out twice
send_command_twice(ch, c) == chan_send_command(chan_send_command(ch, c), c)

\* impl CommandChannel<FileSystem> for FsTestPort: send_command
send_command(ch, c) == chan_send_command(ch, c)

\* impl CommandChannel<FileSystem> for FsTestPort: receive_retv
receive_retv(ch) == chan_receive_retv(ch)

\* FsTestPort::top
top(s) == s[Len(s)]

\* FsTestPort::top_path
top_path(s) == normalize(join_slash([i \in 1 .. Len(s) |-> s[i].name])).val

\* faulty variant of openat_command: dirfd is the fd of the directory the
\* entry on the stack top was listed in
openat_command_below(s, name) ==
    [op |-> "openat",
     dirfd |-> IF Len(s) > 1 THEN s[Len(s) - 1].fd ELSE top(s).fd,
     path |-> name, flags |-> {"RDONLY"}, mode |-> "empty"]

\* the command of FsTestPort::openat_command: dirfd is the fd of the stack
\* top at the time of the call; the flags are OpenFlags::RDONLY and the
\* mode is FileMode::empty()
openat_command(s, name) ==
    [op |-> "openat", dirfd |-> top(s).fd, path |-> name,
     flags |-> {"RDONLY"}, mode |-> "empty"]

\* the command of FsTestPort::getdents_command
getdents_command(s) == [op |-> "getdents", fd |-> top(s).fd, count |-> 1]

\* the command of FsTestPort::fstat_command
fstat_command(s) == [op |-> "fstat", fd |-> top(s).fd]

\* the command of FsTestPort::close_command
close_command(s) == [op |-> "close", fd |-> top(s).fd]

\* the command of FsTestPort::getcwd_command
getcwd_command == [op |-> "getcwd"]

\* Inode::from_stat
from_stat(stat) ==
    [mode |-> stat.mode, uid |-> stat.uid, gid |-> stat.gid,
     nlink |-> stat.nlink, kind |-> stat.kind]

\* FileSystem::new
new(inodes_, cwd_, u, g) ==
    [uid |-> u, gid |-> g, inodes |-> inodes_, cwd |-> cwd_,
     fd_table |-> <<>>, fd_cells |-> <<>>, tmp_inodes |-> <<>>, tmp_idx |-> 0]

\* the port before any state retrieval, on a channel to the target kernel t
PortIs(t) ==
    /\ step = "Open"
    /\ pos = "idle"
    /\ stack = <<>>
    /\ seen_inodes = <<>>
    /\ port_fs = mkm_new
    /\ port_cwd = root
    /\ cmd_chan = chan_new
    /\ tut = t

\* the file system becomes fs
Store(fs) ==
    /\ uid' = fs.uid
    /\ gid' = fs.gid
    /\ inodes' = fs.inodes
    /\ cwd' = fs.cwd
    /\ fd_table' = canon_table(fs)
    /\ fd_cells' = canon_cells(fs)
    /\ tmp_inodes' = fs.tmp_inodes
    /\ tmp_idx' = fs.tmp_idx

\* a command has run and left the state r.fs
Set(r) == Store(r.fs) /\ UNCHANGED <<portvars, pathvars>>

\* the same, within the bounds
Apply(r) == InBounds(r.fs) /\ Set(r)

Chdir ==
    \E path \in ChdirInputs : Apply(ModelChdir(FS, path))

Openat ==
    \E dirfd \in DirFdInputs, path \in PathInputs,
       flags \in OpenFlagInputs, mode \in ModeInputs :
        Apply(ModelOpenat(FS, dirfd, path, flags, mode))

Close ==
    \E fd \in FdInputs : Apply(ModelClose(FS, fd))

Mkdirat ==
    \E dirfd \in DirFdInputs, path \in PathInputs, mode \in ModeInputs :
        Apply(ModelMkdirat(FS, dirfd, path, mode))

\* newdirfd is AT_FDCWD or the fd given as olddirfd
Linkat ==
    \E olddirfd \in DirFdInputs, oldpath \in PathInputs, newpath \in PathInputs :
      \E newdirfd \in {FDCWD, olddirfd} :
        Apply(ModelLinkat(FS, olddirfd, oldpath, newdirfd, newpath))

Unlinkat ==
    \E dirfd \in DirFdInputs, path \in PathInputs, flags \in UnlinkFlagInputs :
        Apply(ModelUnlinkat(FS, dirfd, path, flags))

Dup ==
    \E oldfd \in FdInputs : Apply(ModelDup(FS, oldfd))

\* the variables hold the file system fs
Holds(fs) ==
    /\ uid = fs.uid
    /\ gid = fs.gid
    /\ inodes = fs.inodes
    /\ cwd = fs.cwd
    /\ fd_table = fs.fd_table
    /\ fd_cells = fs.fd_cells
    /\ tmp_inodes = fs.tmp_inodes
    /\ tmp_idx = fs.tmp_idx

\* the file system fs, and a port that retrieves no state
Start(fs) ==
    /\ Holds(fs)
    /\ PortIs(tut_new((root :> FileStat(1, "Directory", 2)), TRUE, FALSE))
    /\ PathIs(<<>>)

\* an empty file system with the root directory; uid and gid 0 are the
\* arguments main.rs gives
Init == Start(new_root(0, 0))

Next == Chdir \/ Openat \/ Close \/ Mkdirat \/ Linkat \/ Unlinkat \/ Dup

Spec == Init /\ [][Next]_vars

\* The same behaviours, for the properties of the commands and of matches as
\* functions: the reachable file systems are the first argument they are
\* applied to.
SpecStates == Init /\ [][Next]_vars

----------------------------------------------------------------------------
(* Arguments the properties below try a command with, in every reachable   *)
(* state: what the commander can give and what it cannot.                  *)

\* AT_FDCWD, every allocated fd, the lowest free one, and fds out of range
ArgFds == {FDCWD, -1, FD_TABLE_SIZE} \cup all_fds(FS) \cup {lowest_none(FS)}

\* the names, the parent directory, absolute paths, a path of two components
ArgPaths == NAMES \cup { <<".", ".">>, <<"/">>, <<"/", "a">>,
                        <<"a", "/", "a", "a">> }

\* the fds whose target is one of the paths of the inode at path p
fds_on_inode(fs, p) ==
    {fd \in all_fds(fs) : /\ fref_of(fs, fd).tag = "Existing"
                          /\ fref_of(fs, fd).ref \in aliases(fs.inodes, p)}

\* the fds whose target is Temporary(t)
fds_on_tmp(fs, t) ==
    {fd \in all_fds(fs) : fref_of(fs, fd).tag = "Temporary" /\ fref_of(fs, fd).ref = t}

----------------------------------------------------------------------------
(* C1 *)

\* C1: in every reachable state every allocated fd slot's target resolves:
\* a path target is a key of inodes, a Temporary(t) target is a key of
\* tmp_inodes.
C1_FdTargetsResolve ==
    \A fd \in all_fds(FS) :
        IF fref_of(FS, fd).tag = "Existing"
        THEN fref_of(FS, fd).ref \in keys(inodes)
        ELSE fref_of(FS, fd).ref \in DOMAIN tmp_inodes

----------------------------------------------------------------------------
(* C2 *)

\* C2: unlinkat without REMOVEDIR of a regular-file path that is not the
\* last alias of its inode returns 0, removes only that path, decrements
\* nlink on the inode the remaining aliases reach, and leaves every fd that
\* referenced the inode on a surviving alias.
C2_UnlinkAliasSucceeds ==
    \A dirfd \in ArgFds, path \in ArgPaths :
        LET p == parse_path(FS, dirfd, path)
            r == ModelUnlinkat(FS, dirfd, path, {})
        IN (/\ p.err = "Ok"
            /\ exists(FS, p.val)
            /\ ~is_dir(FS, p.val)
            /\ Cardinality(aliases(inodes, p.val)) > 1)
           => LET rest == aliases(inodes, p.val) \ {p.val}
              IN /\ r.ret = 0
                 /\ keys(r.fs.inodes) = keys(inodes) \ {p.val}
                 /\ \A q \in rest :
                       get(r.fs.inodes, q).nlink = get(inodes, p.val).nlink - 1
                 /\ \A fd \in fds_on_inode(FS, p.val) :
                       /\ fref_of(r.fs, fd).tag = "Existing"
                       /\ fref_of(r.fs, fd).ref \in rest

----------------------------------------------------------------------------
(* C3 *)

\* C3: when close(fd) succeeds on an fd whose target is Temporary(t) and no
\* remaining allocated fd targets t, t is removed from tmp_inodes; hence no
\* tmp inode is left without an fd referencing it.
C3_CloseLastReapsTmp ==
    /\ \A fd \in all_fds(FS) :
          LET r == ModelClose(FS, fd)
          IN (/\ fref_of(FS, fd).tag = "Temporary"
              /\ r.ret = 0
              /\ fds_on_tmp(r.fs, fref_of(FS, fd).ref) = {})
             => fref_of(FS, fd).ref \notin DOMAIN r.fs.tmp_inodes
    /\ \A t \in DOMAIN tmp_inodes : fds_on_tmp(FS, t) # {}

----------------------------------------------------------------------------
(* C4 *)

\* C4: an inode in tmp_inodes stays there as long as an allocated fd still
\* targets its TmpId: closing one of several fds on the same Temporary inode
\* does not remove it.
C4_TmpStaysWhileReferenced ==
    \A fd \in all_fds(FS) :
        LET r == ModelClose(FS, fd)
        IN (/\ fref_of(FS, fd).tag = "Temporary"
            /\ fref_of(FS, fd).ref \in DOMAIN tmp_inodes
            /\ fds_on_tmp(r.fs, fref_of(FS, fd).ref) # {})
           => fref_of(FS, fd).ref \in DOMAIN r.fs.tmp_inodes

----------------------------------------------------------------------------
(* C5 *)

\* C5: a successful unlink of the last alias of an inode removes the path
\* from inodes; if some allocated fd referenced the inode, the inode goes to
\* tmp_inodes under a TmpId not in use before and every such fd's target
\* becomes Temporary(that id); if none did, tmp_inodes is unchanged.
C5_LastAliasUnlinkMigrates ==
    \A dirfd \in ArgFds, path \in ArgPaths, flags \in UnlinkFlagInputs :
        LET p == parse_path(FS, dirfd, path)
            r == ModelUnlinkat(FS, dirfd, path, flags)
        IN (/\ p.err = "Ok"
            /\ exists(FS, p.val)
            /\ Cardinality(aliases(inodes, p.val)) = 1
            /\ r.ret = 0)
           => LET related == fds_on_inode(FS, p.val)
              IN /\ p.val \notin keys(r.fs.inodes)
                 /\ IF related # {}
                    THEN \E id \in DOMAIN r.fs.tmp_inodes :
                            /\ id \notin DOMAIN tmp_inodes
                            /\ fds_on_tmp(FS, id) = {}
                            /\ r.fs.tmp_inodes[id] = get(inodes, p.val)
                            /\ DOMAIN r.fs.tmp_inodes = DOMAIN tmp_inodes \cup {id}
                            /\ \A t \in DOMAIN tmp_inodes :
                                  r.fs.tmp_inodes[t] = tmp_inodes[t]
                            /\ \A fd \in related :
                                  /\ fref_of(r.fs, fd).tag = "Temporary"
                                  /\ fref_of(r.fs, fd).ref = id
                    ELSE r.fs.tmp_inodes = tmp_inodes

\* an unlink has moved an open inode to tmp_inodes and retargeted its fd,
\* and another path with a single alias is there to unlink
C5_Witness ==
    /\ \E fd \in all_fds(FS) :
          /\ fref_of(FS, fd).tag = "Temporary"
          /\ fref_of(FS, fd).ref \in DOMAIN tmp_inodes
    /\ \E c \in inodes : c.val.kind = "File" /\ Cardinality(c.keys) = 1

----------------------------------------------------------------------------
(* C6 *)

\* C6: in every reachable state each regular-file inode in inodes has nlink
\* equal to the number of paths that map to it.
C6_FileNlinkIsAliasCount ==
    \A c \in inodes :
        c.val.kind = "File" => c.val.nlink = Cardinality(c.keys)

----------------------------------------------------------------------------
(* C7 *)

\* the directories of fs whose parent path is p
subdirs(fs, p) ==
    {q \in keys(fs.inodes) : ~is_root(q) /\ is_dir(fs, q) /\ parent(q) = p}

\* C7: each directory inode at path p has nlink = 2 + the number of
\* directories whose parent path is p: a directory is created with nlink 2,
\* a successful mkdirat adds 1 to the parent's nlink, a successful rmdir
\* subtracts 1, and creating or removing regular files changes no
\* directory's nlink.
C7_DirNlink ==
    /\ \A p \in keys(inodes) :
          is_dir(FS, p) =>
              get(inodes, p).nlink = 2 + Cardinality(subdirs(FS, p))
    /\ \A dirfd \in ArgFds, path \in ArgPaths, mode \in ModeInputs :
          LET p == parse_path(FS, dirfd, path)
              r == ModelMkdirat(FS, dirfd, path, mode)
          IN r.ret = 0 =>
                /\ get(r.fs.inodes, p.val).nlink = 2
                /\ get(r.fs.inodes, parent(p.val)).nlink
                      = get(inodes, parent(p.val)).nlink + 1
    /\ \A dirfd \in ArgFds, path \in ArgPaths :
          LET p == parse_path(FS, dirfd, path)
              r == ModelUnlinkat(FS, dirfd, path, {"REMOVEDIR"})
          IN r.ret = 0 =>
                get(r.fs.inodes, parent(p.val)).nlink
                    = get(inodes, parent(p.val)).nlink - 1
    /\ \A dirfd \in ArgFds, path \in ArgPaths :
          LET c == ModelOpenat(FS, dirfd, path, {"CREAT"}, "m600")
              u == ModelUnlinkat(FS, dirfd, path, {})
          IN \A q \in keys(inodes) :
                is_dir(FS, q) =>
                    /\ is_dir(c.fs, q)
                    /\ get(c.fs.inodes, q).nlink = get(inodes, q).nlink
                    /\ is_dir(u.fs, q)
                    /\ get(u.fs.inodes, q).nlink = get(inodes, q).nlink

\* a directory that holds a directory and a regular file
C7_Witness ==
    \E p \in keys(inodes) :
        /\ is_dir(FS, p)
        /\ get(inodes, p).nlink = 3
        /\ \E q \in keys(inodes) :
              ~is_root(q) /\ parent(q) = p /\ ~is_dir(FS, q)

----------------------------------------------------------------------------
(* C8 *)

\* C8: after any sequence of model commands cwd is a key of inodes and the
\* inode it maps to is a directory.
C8_CwdIsDirectory == exists(FS, cwd) /\ is_dir(FS, cwd)

----------------------------------------------------------------------------
(* C9 *)

\* the command result r stored cell h in slot r.ret, the lowest slot that
\* was empty, and left the other slots as they were
stored_in_lowest(r, h) ==
    /\ r.ret \in FdRange
    /\ r.ret \notin all_fds(FS)
    /\ \A k \in 0 .. (r.ret - 1) : k \in all_fds(FS)
    /\ all_fds(r.fs) = all_fds(FS) \cup {r.ret}
    /\ r.fs.fd_table[r.ret] = h
    /\ \A i \in all_fds(FS) :
          /\ r.fs.fd_table[i] = fd_table[i]
          /\ r.fs.fd_cells[r.fs.fd_table[i]] = fd_cells[fd_table[i]]

\* C9: every successful openat and dup returns the smallest index in 0..256
\* whose slot was empty in the pre-state, and stores the entry in exactly
\* that slot, leaving all other slots unchanged.
C9_AllocLowest ==
    /\ \A dirfd \in ArgFds, path \in ArgPaths,
          flags \in OpenFlagInputs, mode \in ModeInputs :
          LET r == ModelOpenat(FS, dirfd, path, flags, mode)
          IN r.ret >= 0 =>
                /\ stored_in_lowest(r, r.fs.fd_table[r.ret])
                /\ r.fs.fd_table[r.ret] \notin DOMAIN fd_cells
                /\ r.fs.fd_cells[r.fs.fd_table[r.ret]]
                      = new_path(parse_path(FS, dirfd, path).val, flags)
    /\ \A oldfd \in ArgFds :
          LET r == ModelDup(FS, oldfd)
          IN r.ret >= 0 => stored_in_lowest(r, fd_table[oldfd])

\* a slot is empty below an allocated one: a close has made a hole
C9_Witness ==
    \E i \in all_fds(FS) : lowest_none(FS) < i

----------------------------------------------------------------------------
(* C10: the fd table filled by openat after open_stdio *)

FillOpenat ==
    Set(ModelOpenat(FS, FDCWD, <<"/">>, {}, "m600"))

InitFill == Start(open_stdio(new_root(0, 0)))

NextFill == FillOpenat

SpecFill == InitFill /\ [][NextFill]_vars

\* C10: when all 256 fd slots are allocated (stdio pre-opened plus 253
\* successful openats), the next openat on an existing path returns -EMFILE.
C10_FullTableEMFILE ==
    all_fds(FS) = FdRange =>
        \A path \in { <<"/">> } \cup { <<"/">> \o k : k \in keys(inodes) } :
            ModelOpenat(FS, FDCWD, path, {}, "m600").ret = -EMFILE

----------------------------------------------------------------------------
(* C11 *)

\* slots i and j of fs hold the same Rc cell
share(fs, i, j) ==
    /\ i \in all_fds(fs)
    /\ j \in all_fds(fs)
    /\ i # j
    /\ fs.fd_table[i] = fs.fd_table[j]

\* C11: after dup(oldfd) returns newfd the two slots share one fd entry:
\* they have the same target and flags; every command leaves two sharing
\* slots that are both still allocated sharing, with the same target and
\* flags; and closing one of them leaves the other allocated with its target
\* unchanged.
C11_DupShares ==
    [][ /\ \A oldfd \in ArgFds :
              LET r == ModelDup(FS, oldfd)
              IN r.ret >= 0 =>
                    /\ share(r.fs, oldfd, r.ret)
                    /\ fref_of(r.fs, r.ret) = fref_of(FS, oldfd)
                    /\ r.fs.fd_cells[r.fs.fd_table[r.ret]].flags
                          = fd_cells[fd_table[oldfd]].flags
        /\ \A i \in all_fds(FS), j \in all_fds(FS) :
              share(FS, i, j) =>
                 /\ (i \in DOMAIN fd_table' /\ j \in DOMAIN fd_table') =>
                        /\ fd_table'[i] = fd_table'[j]
                        /\ fd_cells'[fd_table'[i]] = fd_cells'[fd_table'[j]]
                 /\ LET r == ModelClose(FS, i)
                    IN /\ r.ret = 0
                       /\ j \in all_fds(r.fs)
                       /\ i \notin all_fds(r.fs)
                       /\ fref_of(r.fs, j) = fref_of(FS, j)
                       /\ r.fs.fd_cells[r.fs.fd_table[j]].flags
                             = fd_cells[fd_table[j]].flags ]_vars

\* two slots share an entry that an unlink has retargeted to a tmp inode
C11_Witness ==
    \E i \in all_fds(FS), j \in all_fds(FS) :
        /\ share(FS, i, j)
        /\ fref_of(FS, i).tag = "Temporary"
        /\ fref_of(FS, i).ref \in DOMAIN tmp_inodes

----------------------------------------------------------------------------
(* C12 *)

\* C12: in a state where path a exists and b's parent is a directory,
\* linkat(a, b) followed immediately by unlinkat(b) leaves inodes (keys,
\* alias classes, every inode's fields) as it was before the linkat.  Stated
\* for the pairs whose linkat succeeds: a is a regular file and b is new.
C12_LinkUnlinkRoundTrip ==
    \A olddirfd \in ArgFds, newdirfd \in ArgFds,
       a \in ArgPaths, b \in ArgPaths :
        LET pa == parse_path(FS, olddirfd, a)
            pb == parse_path(FS, newdirfd, b)
            l == ModelLinkat(FS, olddirfd, a, newdirfd, b)
            u == ModelUnlinkat(l.fs, newdirfd, b, {})
        IN (/\ pa.err = "Ok"
            /\ pb.err = "Ok"
            /\ exists(FS, pa.val)
            /\ ~is_root(pb.val)
            /\ is_dir(FS, parent(pb.val))
            /\ l.ret = 0)
           => u.fs.inodes = inodes

----------------------------------------------------------------------------
(* C13 *)

\* C13: from a state in which mkdirat(p) succeeds, mkdirat(p) followed
\* immediately by unlinkat(p, REMOVEDIR) returns 0 for both and leaves inodes
\* (the parent directory's nlink included) and cwd as before the mkdirat.
C13_MkdirRmdirRoundTrip ==
    \A dirfd \in ArgFds, path \in ArgPaths, mode \in ModeInputs :
        LET mk == ModelMkdirat(FS, dirfd, path, mode)
            u == ModelUnlinkat(mk.fs, dirfd, path, {"REMOVEDIR"})
        IN mk.ret = 0 =>
              /\ u.ret = 0
              /\ u.fs.inodes = inodes
              /\ u.fs.cwd = cwd

\* a mkdirat succeeds on a path that an fd still names, though the path is
\* gone: the new directory has an fd on it when it is removed
C13_Witness ==
    \E fd \in all_fds(FS) :
        /\ fref_of(FS, fd).tag = "Existing"
        /\ ~exists(FS, fref_of(FS, fd).ref)
        /\ ModelMkdirat(FS, FDCWD, <<"/">> \o fref_of(FS, fd).ref, "m600").ret = 0

----------------------------------------------------------------------------
(* C14 *)

\* C14: when p already exists and the fd table is not full, openat(p)
\* returns an fd, and close of that fd right after leaves the fd table,
\* tmp_inodes, inodes and cwd exactly as before the openat.
C14_OpenCloseNeutral ==
    \A dirfd \in ArgFds, path \in ArgPaths, flags \in OpenFlagInputs :
        LET p == parse_path(FS, dirfd, path)
            o == ModelOpenat(FS, dirfd, path, flags, "m600")
            c == ModelClose(o.fs, o.ret)
        IN (/\ p.err = "Ok"
            /\ exists(FS, p.val)
            /\ lowest_none(FS) < FD_TABLE_SIZE)
           => /\ o.ret >= 0
              /\ c.ret = 0
              /\ c.fs.fd_table = fd_table
              /\ c.fs.fd_cells = fd_cells
              /\ c.fs.tmp_inodes = tmp_inodes
              /\ c.fs.inodes = inodes
              /\ c.fs.cwd = cwd

\* a path besides the root is there to open, below an allocated fd a slot is
\* empty, and tmp_inodes holds an inode
C14_Witness ==
    /\ \E p \in keys(inodes) : ~is_root(p)
    /\ \E i \in all_fds(FS) : lowest_none(FS) < i
    /\ DOMAIN tmp_inodes # {}

----------------------------------------------------------------------------
(* C15 *)

\* paths of every shape: the empty path, ".." alone and in front, a trailing
\* and a doubled separator, absolute and relative ones
TotalPaths ==
    ArgPaths \cup { <<>>, <<"/", "/">>, <<"a", "/">>, <<"/", ".", ".">>,
                    <<".", ".", "/", "a">>, <<"a", "/", "/", "a">> }

\* paths for linkat: the names, which resolve, and one that does not
NewPaths == NAMES \cup { <<"/", "/">> }

\* the paths parse_path gives a command in state fs
resolved(fs) ==
    {parse_path(fs, dirfd, path).val :
        <<dirfd, path>> \in {x \in ArgFds \X TotalPaths :
                                parse_path(fs, x[1], x[2]).err = "Ok"}}

\* the command came back with an integer
returns(r) == ~r.panic /\ r.ret \in Int

\* C15: every model command is total: in every reachable state and for every
\* argument (any dirfd, any path, "/" and paths with ".." included, any flags)
\* it returns an integer and does not panic: no unwrap of a missing parent,
\* alias or fd slot, no nlink underflow.  Each command's result and post-state
\* are an operator of the pre-state and the arguments alone.  link is tried
\* on every pair of paths that parse_path can give it.
C15_Total ==
    /\ \A path \in TotalPaths : returns(ModelChdir(FS, path))
    /\ \A fd \in ArgFds :
          returns(ModelClose(FS, fd)) /\ returns(ModelDup(FS, fd))
    /\ \A dirfd \in ArgFds, path \in TotalPaths :
          /\ \A flags \in OpenFlagInputs :
                returns(ModelOpenat(FS, dirfd, path, flags, "m600"))
          /\ returns(ModelMkdirat(FS, dirfd, path, "m600"))
          /\ \A flags \in UnlinkFlagInputs :
                returns(ModelUnlinkat(FS, dirfd, path, flags))
    /\ \A olddirfd \in ArgFds, oldpath \in NewPaths, newpath \in NewPaths :
          \A newdirfd \in {FDCWD, olddirfd} :
              returns(ModelLinkat(FS, olddirfd, oldpath, newdirfd, newpath))
    /\ \A oldpath \in resolved(FS), newpath \in resolved(FS) :
          link(FS, oldpath, newpath).err # "Panic"

\* an inode has two paths and an fd on it: the alias branch of unlink, with
\* its unwraps, is there to run
C15_Witness ==
    \E c \in inodes :
        /\ Cardinality(c.keys) = 2
        /\ \E fd \in all_fds(FS) :
              fref_of(FS, fd).tag = "Existing" /\ fref_of(FS, fd).ref \in c.keys

----------------------------------------------------------------------------
(* C16 *)

\* every directory inode has exactly one path
dirs_have_one_path ==
    \A c \in inodes : c.val.kind = "Directory" => Cardinality(c.keys) = 1

----------------------------------------------------------------------------
(* C17 *)

\* inodes with one field of the inode at k changed
inode_variants(m, k) ==
    { set_val(m, k, [get(m, k) EXCEPT !.nlink = @ + 1]),
      set_val(m, k, [get(m, k) EXCEPT !.mode = "m644"]),
      set_val(m, k, [get(m, k) EXCEPT !.uid = @ + 1]),
      set_val(m, k, [get(m, k) EXCEPT !.gid = @ + 1]),
      set_val(m, k, [get(m, k) EXCEPT
                        !.kind = IF @ = "File" THEN "Directory" ELSE "File"]) }

\* inodes with a key removed, a key added, a key moved out of its alias
\* class into one of its own with an equal inode, or two classes made one
inodes_variants(m) ==
    UNION { inode_variants(m, k) : k \in keys(m) }
      \cup { remove_alias(m, k) : k \in keys(m) }
      \cup { insert(m, <<"b">>, Inode_new("m600", 0, 0, "File")) }
      \cup { insert(remove_alias(m, k), k, get(m, k)) : k \in keys(m) }
      \cup { insert_alias(remove_alias(m, k[1]), k[2], k[1]) :
                k \in {x \in keys(m) \X keys(m) : x[1] # x[2]} }

\* file systems to compare fs with: fs itself, fs with one field changed,
\* and what a command leaves of fs
variants(fs) ==
    { fs, [fs EXCEPT !.uid = @ + 1], [fs EXCEPT !.gid = @ + 1],
      [fs EXCEPT !.fd_table = <<>>, !.fd_cells = <<>>],
      [fs EXCEPT !.tmp_inodes = <<>>], [fs EXCEPT !.tmp_idx = @ + 1],
      open_stdio(fs) }
      \cup { [fs EXCEPT !.cwd = k] : k \in keys(fs.inodes) \cup { <<"b">> } }
      \cup { [fs EXCEPT !.inodes = m] : m \in inodes_variants(fs.inodes) }
      \cup { ModelClose(fs, fd).fs : fd \in all_fds(fs) }
      \cup { ModelOpenat(fs, FDCWD, path, {"CREAT"}, "m600").fs : path \in NAMES }
      \cup { ModelUnlinkat(fs, FDCWD, path, {}).fs : path \in NAMES }

\* cwd, uid and gid are equal and inodes are: the same paths, the same
\* alias classes, and per path inodes with the fields named equal
same_upto(a, b, fields) ==
    /\ a.cwd = b.cwd
    /\ a.uid = b.uid
    /\ a.gid = b.gid
    /\ keys(a.inodes) = keys(b.inodes)
    /\ \A p \in keys(a.inodes) \cap keys(b.inodes) :
          /\ \A f \in fields : get(a.inodes, p)[f] = get(b.inodes, p)[f]
          /\ \A q \in keys(a.inodes) \cap keys(b.inodes) :
                are_aliases(a.inodes, p, q) <=> are_aliases(b.inodes, p, q)

\* a and b differ at most in their fd tables, tmp_inodes and next TmpId
same_but_fds(a, b) ==
    /\ a.cwd = b.cwd
    /\ a.uid = b.uid
    /\ a.gid = b.gid
    /\ a.inodes = b.inodes

\* C17, as stated: matches(a, b) holds iff a and b have equal cwd, uid, gid
\* and equal inodes (same paths, per path inodes equal by mode, uid, gid,
\* nlink and kind, identical alias classes); states that differ only in fd
\* table, tmp_inodes or next TmpId match.  Stated for every build.
C17_MatchesIffEqual ==
    \A fat \in BOOLEAN : \A b \in variants(FS) :
        /\ matches(FS, b, fat)
              <=> same_upto(FS, b, {"mode", "uid", "gid", "nlink", "kind"})
        /\ same_but_fds(FS, b) => matches(FS, b, fat)

\* C17, amended: in the build without the feature "fat", matches(a, b) holds
\* iff a and b have equal cwd, uid, gid and equal inodes (same paths, per
\* path inodes equal by mode, uid, gid, nlink and kind, identical alias
\* classes); in the build with the feature "fat" the inodes are compared by
\* uid, gid and kind only.  In both builds states that differ only in fd
\* table, tmp_inodes or next TmpId match.
C17_MatchesPerBuild ==
    \A b \in variants(FS) :
        /\ matches(FS, b, FALSE)
              <=> same_upto(FS, b, {"mode", "uid", "gid", "nlink", "kind"})
        /\ matches(FS, b, TRUE) <=> same_upto(FS, b, {"uid", "gid", "kind"})
        /\ \A fat \in BOOLEAN : same_but_fds(FS, b) => matches(FS, b, fat)

\* an inode has two paths, an fd is allocated and tmp_inodes holds an inode:
\* there are states to compare with that differ in alias classes alone, and
\* in fd table or tmp_inodes alone
C17_Witness ==
    /\ \E c \in inodes : Cardinality(c.keys) = 2
    /\ all_fds(FS) # {}
    /\ DOMAIN tmp_inodes # {}

----------------------------------------------------------------------------
(* State retrieval: impl StateChannel<FileSystem> for FsTestPort           *)
(* (src/src/port.rs:191-284) against a target kernel.                      *)

\* start_state_retrieval
StartStateRetrieval ==
    /\ pos = "idle"
    /\ stack' = <<[fd |-> -1, name |-> <<>>]>>
    /\ seen_inodes' = <<>>
    /\ port_fs' = mkm_new
    /\ cmd_chan' = send_command(chan_clear_log(cmd_chan),
                                openat_command(stack', <<"/">>))
    /\ step' = "Open"
    /\ pos' = "retv"
    /\ UNCHANGED <<port_cwd, tut, fsvars, pathvars>>

\* the target kernel answers the command that is pending
TutReply ==
    /\ cmd_chan.pending
    /\ \E a \in tut_answers(tut, cmd_chan.cmd) :
        /\ tut' = a.tut
        /\ cmd_chan' = reply(cmd_chan, a.retv, a.extra)
    /\ UNCHANGED <<step, pos, stack, seen_inodes, port_fs, port_cwd, fsvars, pathvars>>

\* retrieve_state_data returns Err(Error::Io)
Fails ==
    /\ cmd_chan' = receive_retv(cmd_chan)
    /\ pos' = "failed"
    /\ UNCHANGED <<step, stack, seen_inodes, port_fs, port_cwd, tut, fsvars, pathvars>>

\* retrieve_state_data in Step::Open; openat_result reads the return
\* value twice
RetrieveOpen ==
    /\ pos = "retv" /\ step = "Open"
    /\ can_receive(cmd_chan)
    /\ IF cmd_chan.retv >= 0
       THEN /\ stack' = [stack EXCEPT ![Len(stack)].fd =
                                          receive_retv(cmd_chan).retv]
            /\ cmd_chan' = send_command(receive_retv(receive_retv(cmd_chan)),
                                        fstat_command(stack'))
            /\ step' = "Fstat"
            /\ UNCHANGED <<pos, seen_inodes, port_fs, port_cwd, tut, fsvars, pathvars>>
       ELSE Fails

\* retrieve_state_data in Step::Fstat
RetrieveFstat ==
    /\ pos = "retv" /\ step = "Fstat"
    /\ can_receive(cmd_chan)
    /\ IF cmd_chan.retv >= 0
       THEN LET stat == cmd_chan.extra
            IN /\ port_fs' =
                    IF stat.ino \in DOMAIN seen_inodes
                    THEN insert_alias(port_fs, seen_inodes[stat.ino],
                                      top_path(stack))
                    ELSE insert(port_fs, top_path(stack), from_stat(stat))
               /\ IF stat.kind = "File"
                  THEN /\ cmd_chan' = send_command(receive_retv(cmd_chan),
                                                   close_command(stack))
                       /\ step' = "Close"
                  ELSE /\ cmd_chan' = send_command(receive_retv(cmd_chan),
                                                   getdents_command(stack))
                       /\ step' = "Getdents"
               /\ UNCHANGED <<pos, stack, seen_inodes, port_cwd, tut, fsvars, pathvars>>
       ELSE Fails

\* retrieve_state_data in Step::Close
RetrieveClose ==
    /\ pos = "retv" /\ step = "Close"
    /\ can_receive(cmd_chan)
    /\ IF cmd_chan.retv >= 0
       THEN /\ stack' = pop(stack)
            /\ IF stack' = <<>>
               THEN /\ cmd_chan' = send_command(receive_retv(cmd_chan),
                                                getcwd_command)
                    /\ step' = "Getcwd"
               ELSE /\ cmd_chan' = send_command(receive_retv(cmd_chan),
                                                getdents_command(stack'))
                    /\ step' = "Getdents"
            /\ UNCHANGED <<pos, seen_inodes, port_fs, port_cwd, tut, fsvars, pathvars>>
       ELSE Fails

\* retrieve_state_data in Step::Getdents
RetrieveGetdents ==
    /\ pos = "retv" /\ step = "Getdents"
    /\ can_receive(cmd_chan)
    /\ IF cmd_chan.retv > 0
       THEN LET name == cmd_chan.extra.name
            IN IF name = <<".">> \/ name = <<".", ".">>
               THEN /\ cmd_chan' = send_command(receive_retv(cmd_chan),
                                                getdents_command(stack))
                    /\ UNCHANGED <<step, pos, stack, seen_inodes, port_fs,
                                   port_cwd, tut, fsvars, pathvars>>
               ELSE /\ stack' = Append(stack, [fd |-> -1, name |-> name])
                    /\ cmd_chan' = send_command(receive_retv(cmd_chan),
                                                openat_command(stack', name))
                    /\ step' = "Open"
                    /\ UNCHANGED <<pos, seen_inodes, port_fs, port_cwd, tut,
                                   fsvars, pathvars>>
       ELSE IF cmd_chan.retv = 0
       THEN /\ cmd_chan' = send_command(receive_retv(cmd_chan),
                                        close_command(stack))
            /\ step' = "Close"
            /\ UNCHANGED <<pos, stack, seen_inodes, port_fs, port_cwd, tut,
                           fsvars, pathvars>>
       ELSE Fails

\* retrieve_state_data in Step::Getcwd: it returns true
RetrieveGetcwd ==
    /\ pos = "retv" /\ step = "Getcwd"
    /\ can_receive(cmd_chan)
    /\ IF cmd_chan.retv >= 0
       THEN /\ port_cwd' = normalize(cmd_chan.extra.name).val
            /\ cmd_chan' = receive_retv(cmd_chan)
            /\ pos' = "done"
            /\ UNCHANGED <<step, stack, seen_inodes, port_fs, tut, fsvars, pathvars>>
       ELSE Fails

\* finish_state_retrieval: the file system retrieved takes the place of the
\* state, and the port is ready for the next retrieval
FinishStateRetrieval ==
    /\ pos = "done"
    /\ Store(new(port_fs, port_cwd, 0, 0))
    /\ pos' = "idle"
    /\ UNCHANGED <<step, stack, seen_inodes, port_fs, port_cwd, cmd_chan, tut,
                   pathvars>>

\* a port before a target kernel with one of the trees
InitPort ==
    /\ Holds(new_root(0, 0))
    /\ \E files \in TutTrees, strict \in BOOLEAN, dots \in BOOLEAN :
        PortIs(tut_new(files, strict, dots))
    /\ PathIs(<<>>)

NextPort ==
    \/ StartStateRetrieval
    \/ TutReply
    \/ RetrieveOpen
    \/ RetrieveFstat
    \/ RetrieveClose
    \/ RetrieveGetdents
    \/ RetrieveGetcwd
    \/ FinishStateRetrieval

SpecPort == InitPort /\ [][NextPort]_vars

\* the target kernel answers every command, and the checker calls
\* retrieve_state_data again as long as it returns false
SpecPortFair == SpecPort /\ WF_vars(NextPort)

----------------------------------------------------------------------------
(* C18 *)

\* C18: two paths of the target kernel for which fstat reports one inode
\* number, once both are in the map the port retrieves, are aliases of one
\* inode there: the second is added as an alias of the first and not
\* inserted as a new inode.
C18_HardLinksAliased ==
    \A p \in keys(port_fs), q \in keys(port_fs) :
        (/\ p \in DOMAIN tut.files
         /\ q \in DOMAIN tut.files
         /\ tut.files[p].ino = tut.files[q].ino)
        => are_aliases(port_fs, p, q)

----------------------------------------------------------------------------
(* C19 *)

----------------------------------------------------------------------------
(* C20 *)

\* C20: at most one request is outstanding at any time.  No command was
\* ever sent while the reply to an earlier one was not received; between
\* two calls of retrieve_state_data exactly one command is outstanding,
\* the one start_state_retrieval or the last step sent; none is once
\* retrieve_state_data has returned true in step Getcwd, or an error.
C20_OneOutstanding ==
    /\ ~cmd_chan.overlap
    /\ cmd_chan.outstanding \in {0, 1}
    /\ pos = "retv" => cmd_chan.outstanding = 1
    /\ pos \in {"idle", "done", "failed"} => cmd_chan.outstanding = 0

\* the reply to the fstat of a directory entry has arrived and is not
\* received yet
C20_Witness ==
    /\ pos = "retv"
    /\ step = "Fstat"
    /\ Len(stack) = 2
    /\ cmd_chan.unread

----------------------------------------------------------------------------
(* Paths: AbsPath::normalize and AbsPath::join (src/src/path.rs:68-112) on *)
(* every string within the bound.                                          *)

\* the characters of the path strings: the separator, the dot, a letter
Alphabet == { "/", ".", "a" }

\* the strings of at most n characters
strings(n) == UNION { [1 .. k -> Alphabet] : k \in 0 .. n }

\* the path strings given to normalize
PathStrings == strings(MaxLen)

\* the relative paths given to join
RelStrings == { <<"a">>, <<".">>, <<".", ".">>, <<".", ".", "/", "a">>, <<>> }

\* AbsPath::new(path_str)
Normalize ==
    /\ norm = NotNormalized
    /\ norm' = normalize(path_str)
    /\ UNCHANGED <<path_str, fsvars, portvars>>

\* the string of the path normalize gave, to be normalized again
AgainString ==
    /\ norm.err = "Ok"
    /\ path_str' = to_string(norm.val)
    /\ norm' = NotNormalized
    /\ UNCHANGED <<fsvars, portvars>>

\* AbsPath::join of the path normalize gave and a relative path
Join ==
    /\ norm.err = "Ok"
    /\ \E rel \in RelStrings :
        /\ Len(joined(norm.val, rel)) <= MaxLen
        /\ path_str' = joined(norm.val, rel)
        /\ norm' = join(norm.val, rel)
    /\ UNCHANGED <<fsvars, portvars>>

InitPath ==
    /\ Holds(new_root(0, 0))
    /\ PortIs(tut_new((root :> FileStat(1, "Directory", 2)), TRUE, FALSE))
    /\ \E s \in PathStrings : PathIs(s)

NextPath == Normalize \/ AgainString \/ Join

SpecPath == InitPath /\ [][NextPath]_vars

----------------------------------------------------------------------------
(* C21 *)

\* the components of an AbsPath; the root has none
components(p) == IF is_root(p) THEN <<>> ELSE split(p)

\* none of the components is empty, "." or ".."
is_normal(p) ==
    \A i \in 1 .. Len(components(p)) :
        components(p)[i] \notin { <<>>, <<".">>, <<".", ".">> }

\* C21: normalization is idempotent: when normalize succeeds on a string,
\* normalizing the string of the path it gave succeeds and gives the same
\* path, and that path has no empty, "." or ".." component; "/a/../b"
\* normalizes to b, and ".." at the root is dropped.
C21_NormalizeIdempotent ==
    /\ norm.err = "Ok" =>
          /\ normalize(to_string(norm.val)) = norm
          /\ is_normal(norm.val)
    /\ normalize(<<"/", "a", "/", ".", ".", "/", "b">>) = Ok(<<"b">>)
    /\ normalize(<<"/", ".", ".">>) = Ok(root)
    /\ normalize(<<".", ".", "/", "a">>) = Ok(<<"a">>)

\* normalize has succeeded on a string with a ".." that it had to drop and a
\* component that it kept
C21_Witness ==
    /\ norm.err = "Ok"
    /\ ~is_root(norm.val)
    /\ norm.val # path_str
    /\ \E i \in 1 .. (Len(path_str) - 1) :
          path_str[i] = "." /\ path_str[i + 1] = "."

----------------------------------------------------------------------------
(* FsCommander::command (src/src/commander.rs:54-124): the commands the    *)
(* commander generates for a state, run on a file system whose stdio fds   *)
(* are open.                                                               *)

\* faulty variant of fd_gen: 0, 1 and 2 are not filtered out
fd_gen_unfiltered(fs) == {FDCWD} \cup all_fds(fs)

\* fd_gen: AT_FDCWD, or one of the allocated fds that are not 0, 1 or 2;
\* AT_FDCWD is the default when that collection is empty
fd_gen(fs) == {FDCWD} \cup { fd \in all_fds(fs) : fd \notin {0, 1, 2} }

\* abs_path_gen: "/" + key for the keys of inodes
abs_path_gen(fs) == { <<"/">> \o to_string(k) : k \in keys(fs.inodes) }

\* rel_path_gen: the names
rel_path_gen == NAMES

\* the states the bounds keep: the size of the open stdio fds comes on top
InBoundsStdio(fs) == size(fs) <= MaxSize + size(open_stdio(new_root(0, 0)))

ApplyGen(r) == InBoundsStdio(r.fs) /\ Set(r)

GenOpenat ==
    \E dirfd \in fd_gen(FS), path \in rel_path_gen,
       flags \in OpenFlagInputs, mode \in ModeInputs :
        ApplyGen(ModelOpenat(FS, dirfd, path, flags, mode))

GenClose ==
    \E fd \in fd_gen(FS) : ApplyGen(ModelClose(FS, fd))

GenChdir ==
    \E path \in abs_path_gen(FS) : ApplyGen(ModelChdir(FS, path))

GenMkdirat ==
    \E dirfd \in fd_gen(FS), path \in rel_path_gen, mode \in ModeInputs :
        ApplyGen(ModelMkdirat(FS, dirfd, path, mode))

GenUnlinkat ==
    \E dirfd \in fd_gen(FS), path \in rel_path_gen,
       flags \in UnlinkFlagInputs :
        ApplyGen(ModelUnlinkat(FS, dirfd, path, flags))

GenLinkat ==
    \E olddirfd \in fd_gen(FS), oldpath \in rel_path_gen,
       newdirfd \in fd_gen(FS), newpath \in rel_path_gen :
        ApplyGen(ModelLinkat(FS, olddirfd, oldpath, newdirfd, newpath))

GenDup ==
    \E oldfd \in fd_gen(FS) : ApplyGen(ModelDup(FS, oldfd))

InitCommander == Start(open_stdio(new_root(0, 0)))

NextCommander ==
    GenOpenat \/ GenClose \/ GenChdir \/ GenMkdirat \/ GenUnlinkat
        \/ GenLinkat \/ GenDup

SpecCommander == InitCommander /\ [][NextCommander]_vars

----------------------------------------------------------------------------
(* C22 *)

\* C22: every fd the commander generates is AT_FDCWD or an fd allocated in
\* the state that is not 0, 1 or 2, and it is AT_FDCWD when there is no such
\* fd; in a run of commands the commander generates, the fds 0, 1 and 2
\* opened at the start are never closed: they are allocated in every state,
\* each still the stdio placeholder.
C22_CommanderFds ==
    /\ \A fd \in fd_gen(FS) :
          fd = FDCWD \/ (fd \in all_fds(FS) /\ fd \notin {0, 1, 2})
    /\ all_fds(FS) \subseteq {0, 1, 2} => fd_gen(FS) = {FDCWD}
    /\ \A fd \in {0, 1, 2} :
          /\ fd \in all_fds(FS)
          /\ fd_cells[fd_table[fd]] = new_tmp(USIZE_MAX, {})

\* fds above stdio were opened and the lowest of them was closed
C22_Witness ==
    /\ {0, 1, 2} \subseteq all_fds(FS)
    /\ \E fd \in all_fds(FS) : lowest_none(FS) < fd /\ lowest_none(FS) > 2

----------------------------------------------------------------------------
(* C23 *)

\* the component list of a is a strict prefix of the component list of b
strict_prefix(a, b) ==
    /\ Len(components(a)) < Len(components(b))
    /\ SubSeq(components(b), 1, Len(components(a))) = components(a)

\* the paths unlink is tried on: every path there is, and paths that are
\* missing, one of them below a missing directory
UnlinkPaths ==
    keys(inodes) \cup { <<"a">>, <<"a", "a">>, <<"a", "/", "a">>,
                         <<"a", "a", "/", "a">> }

\* the state the commands of spec.md's scenario leave, stdio open: mkdirat
\* a, openat a, openat b CREAT below the fd of a
NotEmptyScenario ==
    LET s0 == open_stdio(new_root(0, 0))
        s1 == ModelMkdirat(s0, FDCWD, <<"a">>, "m600")
        s2 == ModelOpenat(s1.fs, FDCWD, <<"a">>, {}, "m600")
        s3 == ModelOpenat(s2.fs, s2.ret, <<"b">>, {"CREAT"}, "m600")
    IN [rets |-> <<s1.ret, s2.ret, s3.ret>>, fs |-> s3.fs]

\* C23: unlink(path, rmdir) fails, leaving the state as it was, with
\* InvalidPath if path is the root; else with NotFound if path is missing;
\* else, for a directory, with IsDirectory if rmdir is false and else with
\* DirectoryNotEmpty if an existing path lies strictly below it; for a
\* regular file, with NotDirectory if rmdir is true.  With stdio open,
\* mkdirat a -> 0, openat a -> 3, openat(3, b, CREAT) -> 4, and then
\* unlinkat(a, REMOVEDIR) returns -ENOTEMPTY and the link count of the
\* parent of /a is what it was.
C23_UnlinkFailures ==
    /\ \A path \in UnlinkPaths, rmdir \in BOOLEAN :
          LET u == unlink(FS, path, rmdir)
          IN IF is_root(path) THEN u = R("InvalidPath", FS, 0)
             ELSE IF path \notin keys(inodes) THEN u = R("NotFound", FS, 0)
             ELSE IF get(inodes, path).kind = "Directory" THEN
                  IF ~rmdir THEN u = R("IsDirectory", FS, 0)
                  ELSE (\E k \in keys(inodes) : strict_prefix(path, k))
                          => u = R("DirectoryNotEmpty", FS, 0)
             ELSE rmdir => u = R("NotDirectory", FS, 0)
    /\ LET s == NotEmptyScenario
           u == ModelUnlinkat(s.fs, FDCWD, <<"a">>, {"REMOVEDIR"})
       IN /\ s.rets = <<0, 3, 4>>
          /\ u.ret = -ENOTEMPTY
          /\ u.fs = s.fs
          /\ get(u.fs.inodes, root).nlink = get(s.fs.inodes, root).nlink

\* a directory that is not empty, an empty one and a regular file are there
C23_Witness ==
    /\ \E p \in keys(inodes) :
          /\ ~is_root(p)
          /\ get(inodes, p).kind = "Directory"
          /\ \E k \in keys(inodes) : strict_prefix(p, k)
    /\ \E p \in keys(inodes) :
          /\ get(inodes, p).kind = "Directory"
          /\ ~\E k \in keys(inodes) : strict_prefix(p, k)
    /\ \E p \in keys(inodes) : get(inodes, p).kind = "File"

----------------------------------------------------------------------------
(* C24 *)

\* C24: parse_path(dirfd, path) gives an absolute path normalized, whatever
\* dirfd is; a relative path with AT_FDCWD it resolves against cwd; with
\* another dirfd it fails with EBADF if dirfd is out of range or not
\* allocated, with NotFound if the target of the fd is Temporary or a path
\* that is not there, with NotDirectory if the target is a regular file,
\* and else resolves the path against the target of the fd.
C24_ParsePath ==
    \A dirfd \in ArgFds, path \in TotalPaths :
        LET p == parse_path(FS, dirfd, path)
        IN IF Len(path) > 0 /\ path[1] = "/" THEN p = normalize(path)
           ELSE IF dirfd = FDCWD THEN p = join(cwd, path)
           ELSE IF dirfd \notin 0 .. (FD_TABLE_SIZE - 1)
                    \/ dirfd \notin DOMAIN fd_table
                THEN p.err # "Ok" /\ into_isize(p.err) = -EBADF
           ELSE LET target == fd_cells[fd_table[dirfd]].fref
                IN IF target.tag = "Temporary"
                      \/ target.ref \notin keys(inodes)
                   THEN p = Err("NotFound")
                   ELSE IF get(inodes, target.ref).kind = "File"
                        THEN p = Err("NotDirectory")
                   ELSE p = join(target.ref, path)

\* an fd is open on a directory that was removed, and a regular file is
\* there
C24_Witness ==
    /\ \E fd \in all_fds(FS) :
          /\ fref_of(FS, fd).tag = "Temporary"
          /\ fref_of(FS, fd).ref \in DOMAIN tmp_inodes
          /\ tmp_inodes[fref_of(FS, fd).ref].kind = "Directory"
    /\ \E k \in keys(inodes) : get(inodes, k).kind = "File"

----------------------------------------------------------------------------
(* C25: openat, on file systems with a file, a directory and an fd whose   *)
(* file was removed, up to the fd table being full                         *)

\* file systems that commands leave, stdio open: nothing but the root; a
\* file a with fd 3 on it; a directory aa beside it; the fd closed; the
\* file removed while fd 3 is on it
OpenStates ==
    LET s0 == open_stdio(new_root(0, 0))
        s1 == ModelOpenat(s0, FDCWD, <<"a">>, {"CREAT"}, "m600").fs
        s2 == ModelMkdirat(s1, FDCWD, <<"a", "a">>, "m600").fs
        s3 == ModelClose(s2, 3).fs
        s4 == ModelUnlinkat(s2, FDCWD, <<"a">>, {}).fs
    IN {s0, s1, s2, s3, s4}

InitOpenat == \E fs \in OpenStates : Start(fs)

NextOpenat == FillOpenat

SpecOpenat == InitOpenat /\ [][NextOpenat]_vars

\* the paths openat is tried on: there or missing, relative and absolute,
\* one below a missing directory, one below a regular file
OpenPaths ==
    { <<"a">>, <<"a", "a">>, <<"b">>, <<"/">>, <<"/", "a">>,
      <<"a", "a", "/", "a">>, <<"b", "/", "a">>, <<"a", "/", "a">> }

\* r is the result of an openat that has given a new fd on the path p
new_fd_on(r, p) ==
    /\ r.ret >= 0
    /\ r.ret \notin all_fds(FS)
    /\ all_fds(r.fs) = all_fds(FS) \cup {r.ret}
    /\ fref_of(r.fs, r.ret) = Existing(p)

\* what the claim says of openat in the present state
openat_as_claimed ==
    \A dirfd \in {FDCWD, -1, 3}, path \in OpenPaths,
       flags \in OpenFlagInputs, mode \in {"m600", "m644"} :
        LET p == parse_path(FS, dirfd, path)
            o == ModelOpenat(FS, dirfd, path, flags, mode)
        IN p.err = "Ok" =>
            IF p.val \notin keys(inodes) THEN
                IF "CREAT" \notin flags
                THEN o.ret = -ENOENT /\ o.fs = FS
                ELSE (/\ parent(p.val) \in keys(inodes)
                      /\ get(inodes, parent(p.val)).kind = "Directory")
                     => /\ o.fs.inodes =
                              inodes \cup
                                { [keys |-> {p.val},
                                   val |-> [mode |-> mode, uid |-> uid,
                                            gid |-> gid, nlink |-> 1,
                                            kind |-> "File"]] }
                        /\ new_fd_on(o, p.val)
            ELSE o.fs.inodes = inodes /\ new_fd_on(o, p.val)

----------------------------------------------------------------------------
(* C26 *)

\* the names on the stack s that are not empty, from the bottom
stack_names(s) ==
    SelectSeq([i \in 1 .. Len(s) |-> s[i].name], LAMBDA n : n # <<>>)

\* retrieve_state_data takes a reply and returns Ok(false)
takes_reply ==
    /\ pos = "retv" /\ pos' = "retv"
    /\ ~cmd_chan.pending /\ cmd_chan'.pending

\* the command that a step has sent
sent == cmd_chan'.cmd

----------------------------------------------------------------------------
(* C30 *)

\* the positions in the log of the commands with the operation op
sent_ops(op) == { i \in DOMAIN cmd_chan.log : cmd_chan.log[i].cmd.op = op }

\* the positions in the log of the openat requests that returned an fd
opened == { i \in sent_ops("openat") :
              cmd_chan.log[i].answered /\ cmd_chan.log[i].retv >= 0 }

\* the close requests for the fd that the openat at i returned, sent
\* after it and before a later openat returned the same fd again
closes_of(i) ==
    { j \in sent_ops("close") :
        /\ j > i
        /\ cmd_chan.log[j].cmd.fd = cmd_chan.log[i].retv
        /\ ~\E k \in opened :
              i < k /\ k < j /\ cmd_chan.log[k].retv = cmd_chan.log[i].retv }

\* every command sent is an openat with RDONLY and without CREAT, an
\* fstat, a getdents, a close or a getcwd
read_only ==
    \A i \in DOMAIN cmd_chan.log :
        LET c == cmd_chan.log[i].cmd
        IN /\ c.op \in {"openat", "fstat", "getdents", "close", "getcwd"}
           /\ c.op = "openat" => c.flags = {"RDONLY"}

\* once getcwd is sent, every fd an openat returned was closed exactly once
closed_before_getcwd ==
    sent_ops("getcwd") # {} =>
        \A i \in opened : Cardinality(closes_of(i)) = 1

\* retrieve_state_data has returned true or an error
terminated == pos \in {"done", "failed"}

\* C30: state retrieval is fd-neutral and read-only on the target kernel.
\* Every command it sends is an openat with RDONLY (never CREAT), an fstat,
\* a getdents, a close or a getcwd; every fd that one of its openat requests
\* returned is closed exactly once by a later close before getcwd is sent;
\* when the retrieval terminates the stack is empty and as many close
\* requests were sent as openat requests.
C30_FdNeutral ==
    /\ read_only
    /\ closed_before_getcwd
    /\ terminated =>
          /\ stack = <<>>
          /\ Cardinality(sent_ops("close")) = Cardinality(sent_ops("openat"))

----------------------------------------------------------------------------
(* C27 *)

\* the paths is_ancestor is tried on: every path there is, and three more
AncestorPaths == keys(inodes) \cup { <<"a">>, <<"a", "a">>, <<"a", "/", "a">> }

\* C27: is_ancestor(self, other) is true exactly when the components of
\* self are a strict prefix of the components of other: root is an ancestor
\* of every path but root, no path is its own ancestor, and "a" is not an
\* ancestor of "aa".  So is_empty_dir(p) is true iff p is a directory and
\* no path that exists lies strictly below p.
C27_IsAncestor ==
    /\ \A p \in AncestorPaths, q \in AncestorPaths :
          is_ancestor(p, q) <=> strict_prefix(p, q)
    /\ \A q \in AncestorPaths : ~is_root(q) => is_ancestor(root, q)
    /\ \A p \in AncestorPaths : ~is_ancestor(p, p)
    /\ ~is_ancestor(<<"a">>, <<"a", "a">>)
    /\ \A p \in AncestorPaths :
          is_empty_dir(FS, p)
            <=> (is_dir(FS, p) /\ ~\E k \in keys(inodes) : strict_prefix(p, k))

----------------------------------------------------------------------------
(* C28 *)

\* the fds the commands are tried on: AT_FDCWD, fds out of the range, the
\* stdio fds and the first fd above them
TriedFds == {FDCWD, -1, 0, 3, FD_TABLE_SIZE}

\* the command with the result r has changed nothing if it has failed
fails_clean(r) == r.ret < 0 => r.fs = FS

\* C28: whenever a model command (openat, close, mkdirat, linkat, unlinkat,
\* chdir, dup) returns a negative value, the whole state (inodes with the
\* alias classes and link counts, fd table, tmp_inodes, cwd) is as it was
\* before: an openat with CREAT on a missing path that fails because the fd
\* table is full does not leave the file created, and an unlinkat that
\* returns an error removes no path.
C28_ErrorsChangeNothing ==
    /\ \A dirfd \in TriedFds, path \in OpenPaths :
          /\ \A flags \in OpenFlagInputs :
                fails_clean(ModelOpenat(FS, dirfd, path, flags, "m600"))
          /\ fails_clean(ModelMkdirat(FS, dirfd, path, "m600"))
          /\ \A flags \in UnlinkFlagInputs :
                fails_clean(ModelUnlinkat(FS, dirfd, path, flags))
          /\ \A newpath \in OpenPaths :
                fails_clean(ModelLinkat(FS, dirfd, path, FDCWD, newpath))
    /\ \A path \in OpenPaths : fails_clean(ModelChdir(FS, path))
    /\ \A fd \in TriedFds :
          fails_clean(ModelClose(FS, fd)) /\ fails_clean(ModelDup(FS, fd))

----------------------------------------------------------------------------
(* C29 *)

\* C29: in every state that model commands reach from new_root, inodes is
\* a well-formed tree: root is there and is a directory, and for every
\* path p but root in inodes, parent(p) is in inodes and maps to a
\* directory; no path is left under a removed directory or under a
\* regular file.
C29_WellFormedTree ==
    /\ root \in keys(inodes)
    /\ get(inodes, root).kind = "Directory"
    /\ \A p \in keys(inodes) :
          ~is_root(p) =>
              /\ parent(p) \in keys(inodes)
              /\ get(inodes, parent(p)).kind = "Directory"

\* a path lies in a directory that is not the root, and a directory was
\* removed while an fd was on it
C29_Witness ==
    /\ \E p \in keys(inodes) : ~is_root(p) /\ ~is_root(parent(p))
    /\ \E k \in DOMAIN tmp_inodes : tmp_inodes[k].kind = "Directory"

----------------------------------------------------------------------------
(* C31 *)

\* the requests of the log that the target kernel has answered
answered == { i \in DOMAIN cmd_chan.log : cmd_chan.log[i].answered }

\* C31: in step Open exactly one return value is taken from the command
\* channel for the openat that is outstanding, and that value is the fd
\* written into the stack top; no step of the state port takes more
\* return values than requests were sent and answered.
C31_OneRetvPerRequest ==
    /\ [][ (step = "Open" /\ takes_reply) =>
             /\ cmd_chan'.reads = cmd_chan.reads + 1
             /\ stack'[Len(stack')].fd = cmd_chan.retv ]_vars
    /\ [](cmd_chan.reads <= Cardinality(answered))

====
